---- MODULE Spec2Model ----
(***************************************************************************)
(* Self-healing subsystem of bluefermion/feedback: the intake handler      *)
(* (HandleSubmit), the trigger policy and single-flight worker (Trigger),  *)
(* the agent loop (LLMAnalyzer.Analyze) and the record store calls.        *)
(*                                                                         *)
(* Time is counted in ticks of 30 minutes: the default Timeout is one      *)
(* tick and the default Cooldown two.  Every goroutine is a request of     *)
(* reqs: its pc walks through the handler and then through the detached    *)
(* worker.  The trigger mutex is the variable mu.                          *)
(***************************************************************************)
EXTENDS Integers, Sequences, FiniteSets, TLC

VARIABLES
    config,      \* the immutable selfhealing.Config the handler was built with
    llmReplies,  \* what the remote chat endpoint may answer (environment)
    now,         \* wall clock, in ticks
    isRunning,   \* Trigger.isRunning
    lastRun,     \* Trigger.lastRun
    mu,          \* holder of Trigger.mu: "free", or "status"
    reqs,        \* the requests: handler and worker state, by arrival order
    nextId,      \* the store's next row id
    analysis,    \* id -> the texts UpdateAnalysis was called with, in order
    statusPc,    \* position of a Status() caller
    crashed,     \* the process died of an unrecovered panic
    probe        \* a direct call of one function: its arguments and its result

vars == <<config, llmReplies, now, isRunning, lastRun, mu, reqs, nextId,
          analysis, statusPc, crashed, probe>>

----------------------------------------------------------------------------
(* Bounds of the model *)

MaxSubmissions == 2
MaxTicks == 2
MaxPathLen == 6
MaxReceives == 2
MaxLines == 3

(* Program constants *)

Cooldown == 2
Timeout == 1
maxIterations == 10
ZeroTime == 0

Ids == 1..MaxSubmissions
StartTime == ZeroTime + Cooldown
MaxNow == StartTime + MaxTicks

----------------------------------------------------------------------------
(* Configuration *)

\* parseAllowedTypes on the values of SELFHEALING_TYPES the model uses: the
\* entries between commas, trimmed; "bug" alone when the variable is empty
parseAllowedTypes(s) ==
    CASE s = "" -> <<"bug">>
      [] s = "Bug,feature" -> <<"Bug", "feature">>
      [] s = "ALL" -> <<"ALL">>
      [] s = "feature, bug" -> <<"feature", "bug">>
      [] OTHER -> <<s>>

AnalyzeConfig ==
    [Enabled |-> TRUE, Mode |-> "analyze", DryRun |-> FALSE, SkipGuards |-> FALSE,
     LLMAPIKey |-> "key", AdminEmails |-> {}, AllowedTypes |-> parseAllowedTypes(""),
     ScriptExists |-> FALSE, ToolCalling |-> TRUE]

Configs ==
    { AnalyzeConfig,
      [AnalyzeConfig EXCEPT !.ToolCalling = FALSE],
      [AnalyzeConfig EXCEPT !.DryRun = TRUE, !.SkipGuards = TRUE],
      [AnalyzeConfig EXCEPT !.Mode = "opencode", !.LLMAPIKey = "",
                            !.AdminEmails = {"alice@co"}, !.ScriptExists = TRUE],
      [AnalyzeConfig EXCEPT !.Mode = "opencode", !.DryRun = TRUE, !.LLMAPIKey = "",
                            !.AdminEmails = {"alice@co"}, !.ScriptExists = TRUE],
      [AnalyzeConfig EXCEPT !.Enabled = FALSE],
      [AnalyzeConfig EXCEPT !.LLMAPIKey = ""],
      [AnalyzeConfig EXCEPT !.Mode = "opencode", !.AdminEmails = {}, !.ScriptExists = TRUE],
      [AnalyzeConfig EXCEPT !.Mode = "opencode", !.AdminEmails = {"alice@co"}] }

\* Config.Validate: "" when the configuration is sane, else the error.
Validate(c) ==
    IF ~c.Enabled THEN ""
    ELSE IF c.Mode = "opencode"
         THEN IF ~c.ScriptExists THEN "trigger script not found"
              ELSE IF c.AdminEmails = {} THEN "ADMIN_EMAILS is required for opencode mode"
              ELSE ""
         ELSE IF c.LLMAPIKey = "" THEN "LLM_API_KEY is required for analyze mode"
              ELSE ""

SelfHealNilWhenDisabled == ~config.Enabled

\* NewFeedbackHandler: h.selfheal is nil unless enabled and valid.
SelfHealNil == ~(config.Enabled /\ Validate(config) = "")

----------------------------------------------------------------------------
(* Strings: the conversions the code applies, on the strings the model uses *)

TrimSpaceKeepsAll(s) == s

\* strings.TrimSpace
TrimSpace(s) ==
    CASE s = " " -> ""
      [] s = " Crash " -> "Crash"
      [] s = " Alice@Co " -> "Alice@Co"
      [] s = " Bug " -> "Bug"
      [] OTHER -> s

\* strings.ToLower
ToLower(s) ==
    CASE s = "Alice@Co" -> "alice@co"
      [] s = " Alice@Co " -> " alice@co "
      [] s = "Bug" -> "bug"
      [] s = "ALL" -> "all"
      [] OTHER -> s

----------------------------------------------------------------------------
(* Requests *)

\* model.FeedbackRequest bodies the widget may post (json = FALSE: malformed)
Inputs ==
    { [json |-> FALSE, title |-> "", description |-> "", type |-> "", email |-> ""],
      [json |-> TRUE, title |-> " ", description |-> "It broke", type |-> "bug", email |-> "alice@co"],
      [json |-> TRUE, title |-> "Crash", description |-> " ", type |-> "bug", email |-> "alice@co"],
      [json |-> TRUE, title |-> " Crash ", description |-> "It broke", type |-> "bug", email |-> "alice@co"],
      [json |-> TRUE, title |-> "Crash", description |-> "It broke", type |-> "feature", email |-> "eve@attacker.test"] }

NoFeedback == [ID |-> 0, Title |-> "", Description |-> "", Type |-> "", UserEmail |-> ""]

\* selfhealing.Result (the fields the handler reads)
NoResult == [Triggered |-> FALSE, Success |-> FALSE, Message |-> "", Output |-> "", Error |-> ""]

\* Turn 1 of a run, when the model answered it with "stop" and no tool calls
NoAnswer == [given |-> FALSE, content |-> ""]

IdleReq ==
    [pc |-> "idle", fb |-> NoFeedback, status |-> 0, message |-> "",
     guard |-> "none", create |-> "none", asked |-> FALSE, reason |-> "",
     admitted |-> FALSE, result |-> NoResult, messages |-> <<>>, iter |-> 0,
     calls |-> 0, failed |-> 0, answer1 |-> NoAnswer,
     stamp |-> ZeroTime, panicking |-> FALSE]

\* Texts (a model's reply, a keyword) are sequences of one-character strings
UpperLetters == <<"A", "B", "C", "D", "E", "F", "G", "H", "I", "J", "K", "L", "M", "N", "O", "P", "Q", "R", "S", "T", "U", "V", "W", "X", "Y", "Z">>
LowerLetters == <<"a", "b", "c", "d", "e", "f", "g", "h", "i", "j", "k", "l", "m", "n", "o", "p", "q", "r", "s", "t", "u", "v", "w", "x", "y", "z">>
Digits == <<"0", "1", "2", "3", "4", "5", "6", "7", "8", "9">>

\* strings.ToLower, on a text
ToLowerText(t) ==
    [i \in 1..Len(t) |->
        IF \E k \in 1..Len(UpperLetters) : UpperLetters[k] = t[i]
        THEN LowerLetters[CHOOSE k \in 1..Len(UpperLetters) : UpperLetters[k] = t[i]]
        ELSE t[i]]

\* strings.TrimSpace, on a text
TrimSpaceText(t) ==
    LET White == {" ", "\n", "\t", "\r"}
        inked == {i \in 1..Len(t) : t[i] \notin White}
    IN  IF inked = {} THEN << >>
        ELSE SubSeq(t, CHOOSE i \in inked : \A j \in inked : i <= j,
                       CHOOSE i \in inked : \A j \in inked : i >= j)

\* strings.Contains, on texts
Contains(t, substr) ==
    \E i \in 0..(Len(t) - Len(substr)) : SubSeq(t, i + 1, i + Len(substr)) = substr

RECURSIVE IntValue(_)
\* The number a string of decimal digits denotes
IntValue(digits) ==
    IF digits = << >> THEN 0
    ELSE IntValue(SubSeq(digits, 1, Len(digits) - 1)) * 10
         + (CHOOSE k \in 1..10 : Digits[k] = digits[Len(digits)]) - 1

RECURSIVE DigitsOf(_)
\* The decimal digits of a natural number
DigitsOf(n) ==
    IF n < 10 THEN << Digits[n + 1] >> ELSE DigitsOf(n \div 10) \o << Digits[(n % 10) + 1] >>

RECURSIVE Pow10(_)
Pow10(n) == IF n = 0 THEN 1 ELSE 10 * Pow10(n - 1)

\* A float64 the model handles: the exact fraction num / den, den a power of ten
Score(num, den) == [num |-> num, den |-> den]

\* strconv.ParseFloat(content, 64) on plain decimal literals: an optional sign,
\* digits, at most one point.  (The exponent, hexadecimal, infinity and NaN
\* forms it also accepts are not among the replies of the model.)
ParseFloat(content) ==
    LET signed == content # << >> /\ content[1] \in {"-", "+"}
        body == IF signed THEN Tail(content) ELSE content
        points == {i \in 1..Len(body) : body[i] = "."}
        point == IF points = {} THEN Len(body) + 1 ELSE CHOOSE i \in points : TRUE
        fraction == SubSeq(body, point + 1, Len(body))
        digits == SubSeq(body, 1, point - 1) \o fraction
        ok == /\ Cardinality(points) <= 1
              /\ digits # << >>
              /\ \A i \in 1..Len(digits) : \E k \in 1..10 : Digits[k] = digits[i]
    IN  IF ok
        THEN [ok |-> TRUE,
              score |-> Score(IntValue(digits) * (IF content[1] = "-" THEN -1 ELSE 1),
                              Pow10(Len(fraction)))]
        ELSE [ok |-> FALSE, score |-> Score(0, 1)]

\* fmt.Sprintf("%.1f", score*100) for a score above one half: the percentage
\* rounded to one decimal
Percent(score) ==
    LET tenths == (2 * score.num * 1000 + score.den) \div (2 * score.den)
    IN  DigitsOf(tenths \div 10) \o <<".">> \o << Digits[(tenths % 10) + 1] >>

\* GuardResult{}: Reason is the concatenation of its elements
ZeroGuardResult ==
    [OK |-> FALSE, Skipped |-> FALSE, Blocked |-> FALSE, Reason |-> << >>,
     Confidence |-> Score(0, 1), Categories |-> << >>]

\* What the guard model's endpoint does with one request: err is client.Do's
\* error or the non-200 status, choices the contents of the choices it sent
GuardFailure == [err |-> "dial tcp: connection refused", choices |-> << >>]
GuardApiError == [err |-> "API error 500: overloaded", choices |-> << >>]
GuardReply(content) == [err |-> "", choices |-> << content >>]
NoChoices == [err |-> "", choices |-> << >>]

GuardContents ==
    { <<"s", "a", "f", "e">>,
      <<"u", "n", "s", "a", "f", "e", "\n", "S", "1">>,
      <<"u", "n", "s", "a", "f", "e", "\n", "s", "2">>,
      <<"U", "N", "S", "A", "F", "E">>,
      <<"J", "a", "i", "l", "b", "r", "e", "a", "k">>,
      <<"m", "a", "l", "i", "c", "i", "o", "u", "s", " ", "i", "n", "j", "e", "c", "t", "i", "o", "n">>,
      <<"s", "e", "x", "u", "a", "l", " ", "v", "i", "o", "l", "e", "n", "c", "e">>,
      <<"0", ".", "5">>,
      <<"0", ".", "5", "1">>,
      <<" ", "0", ".", "9", "\n">>,
      <<"1", ".", "5">>,
      <<"-", "1">>,
      <<"0">>,
      <<"1">> }

GuardResponses ==
    {GuardFailure, GuardApiError, NoChoices} \cup {GuardReply(content) : content \in GuardContents}

\* The responses the intake's guard call is checked on
GuardOutcomes ==
    { GuardFailure, GuardReply(<<"s", "a", "f", "e">>), GuardReply(<<"u", "n", "s", "a", "f", "e", "\n", "S", "1">>) }

OverThresholdInclusive(score) == 2 * score.num >= score.den

\* callGuardModel: score > 0.5
OverThreshold(score) == 2 * score.num > score.den

\* callGuardModel: the keywords that block
BlockKeywords ==
    { <<"u", "n", "s", "a", "f", "e">>, <<"i", "n", "j", "e", "c", "t", "i", "o", "n">>, <<"j", "a", "i", "l", "b", "r", "e", "a", "k">>, <<"m", "a", "l", "i", "c", "i", "o", "u", "s">> }

\* callGuardModel: the categories a blocked reply gets, in the order the code
\* appends them, each for any of its keywords
CategoryKeywords ==
    << [category |-> "violence", words |-> {<<"s", "1">>, <<"v", "i", "o", "l", "e", "n", "c", "e">>}],
       [category |-> "sexual", words |-> {<<"s", "2">>, <<"s", "e", "x", "u", "a", "l">>}],
       [category |-> "prompt_injection",
        words |-> {<<"j", "a", "i", "l", "b", "r", "e", "a", "k">>, <<"i", "n", "j", "e", "c", "t", "i", "o", "n">>}] >>

\* The categories whose keywords text contains
CategoriesIn(text) ==
    LET one(k) == IF \E word \in CategoryKeywords[k].words : Contains(text, word)
                  THEN << CategoryKeywords[k].category >> ELSE << >>
    IN  one(1) \o one(2) \o one(3)

\* callGuardModel, from the endpoint's response on: the result and the error
callGuardModel(response) ==
    IF response.err # "" THEN [result |-> ZeroGuardResult, err |-> response.err]
    ELSE IF response.choices = << >>
         THEN [result |-> [ZeroGuardResult EXCEPT !.OK = TRUE], err |-> ""]
    ELSE
        LET content == TrimSpaceText(response.choices[1])
            contentLower == ToLowerText(content)
            parsed == ParseFloat(content)
            guardResult == [ZeroGuardResult EXCEPT !.OK = TRUE]
        IN  [err |-> "",
             result |->
                IF parsed.ok
                THEN IF OverThreshold(parsed.score)
                     THEN [guardResult EXCEPT
                             !.Confidence = parsed.score, !.OK = FALSE, !.Blocked = TRUE,
                             !.Reason = <<"prompt injection detected (confidence: ">>
                                        \o Percent(parsed.score) \o <<"%)">>,
                             !.Categories = <<"prompt_injection">>]
                     ELSE [guardResult EXCEPT !.Confidence = parsed.score]
                ELSE IF \E word \in BlockKeywords : Contains(contentLower, word)
                     THEN [guardResult EXCEPT
                             !.OK = FALSE, !.Blocked = TRUE, !.Reason = content,
                             !.Categories = CategoriesIn(content)]
                     ELSE guardResult]

FailClosed(prefix, err) ==
    [ZeroGuardResult EXCEPT !.Blocked = TRUE, !.Reason = <<prefix, err>>]

\* CheckPromptInjection, CheckSafety: the guard model could not be reached
FailOpen(prefix, err) ==
    [ZeroGuardResult EXCEPT !.OK = TRUE, !.Reason = <<prefix, err>>]

\* One check of Guards: its result and the models it called over the network
GuardCheck(c, model, prefix, response) ==
    IF c.SkipGuards
    THEN [result |-> [ZeroGuardResult EXCEPT !.OK = TRUE, !.Skipped = TRUE], calls |-> << >>]
    ELSE IF c.LLMAPIKey = ""
    THEN [result |-> [ZeroGuardResult EXCEPT !.OK = TRUE, !.Skipped = TRUE,
                                             !.Reason = <<"no API key configured">>],
          calls |-> << >>]
    ELSE [result |-> IF callGuardModel(response).err # ""
                     THEN FailOpen(prefix, callGuardModel(response).err)
                     ELSE callGuardModel(response).result,
          calls |-> << model >>]

\* Guards.CheckPromptInjection, on the response of the guard model
CheckPromptInjection(c, response) ==
    GuardCheck(c, "meta-llama/llama-prompt-guard-2-86m", "guard check failed: ", response).result

\* Guards.CheckSafety, on the response of the guard model
CheckSafety(c, response) ==
    GuardCheck(c, "meta-llama/llama-guard-4-12b", "safety check failed: ", response).result

RunsSafetyAlways(injectionResult) == TRUE

\* RunAllGuards: the safety check runs unless the injection check blocked
RunsSafety(injectionResult) == ~injectionResult.Blocked

\* Guards.RunAllGuards, on the responses of the two guard models: its result
\* and the models it called
RunAllGuards(c, injectionResponse, safetyResponse) ==
    LET injection == GuardCheck(c, "meta-llama/llama-prompt-guard-2-86m",
                                "guard check failed: ", injectionResponse)
        safety == GuardCheck(c, "meta-llama/llama-guard-4-12b",
                             "safety check failed: ", safetyResponse)
    IN  IF c.SkipGuards
        THEN [result |-> [ZeroGuardResult EXCEPT !.OK = TRUE, !.Skipped = TRUE],
              calls |-> << >>]
        ELSE IF ~RunsSafety(injection.result)
        THEN [result |-> injection.result, calls |-> injection.calls]
        ELSE IF safety.result.Blocked
        THEN [result |-> safety.result, calls |-> injection.calls \o safety.calls]
        ELSE [result |-> [ZeroGuardResult EXCEPT !.OK = TRUE],
              calls |-> injection.calls \o safety.calls]

\* The handler's reply to the client and the end of the request
Respond(r, status, message) ==
    [r EXCEPT !.pc = "done", !.status = status, !.message = message]

\* The goroutine of request r is at pc, in a process that is alive
At(r, pc) == ~crashed /\ r.pc = pc

\* Requests arrive in the order of their index
Arrives(s) ==
    /\ At(reqs[s], "idle")
    /\ IF s = 1 THEN TRUE ELSE reqs[s - 1].pc # "idle"

GuardStopsNothing(guardResult) == FALSE

\* HandleSubmit: a blocked guard result ends the request
GuardStops(guardResult) == guardResult.Blocked

\* What became of the guard call, as the request remembers it
GuardVerdict(guardResult) ==
    IF guardResult.Blocked THEN "blocked"
    ELSE IF guardResult.Skipped THEN "skipped"
    ELSE "passed"

\* HandleSubmit, up to and including persistence: parse, validate, guard, Create.
\* dbOk is whether the INSERT succeeds.
HandleSubmitIntake(s, in, outcome, dbOk) ==
    LET title == TrimSpace(in.title)
        description == TrimSpace(in.description)
        feedback == [ID |-> 0, Title |-> title, Description |-> description,
                     Type |-> IF in.type = "" THEN "other" ELSE in.type,
                     UserEmail |-> in.email]
        guardResult == CheckPromptInjection(config, outcome)
        guard == IF SelfHealNil THEN "none" ELSE GuardVerdict(guardResult)
        r == reqs[s]
    IN  /\ Arrives(s)
        /\ IF ~in.json
             THEN /\ reqs' = [reqs EXCEPT ![s] = Respond(r, 400, "Invalid JSON")]
                  /\ UNCHANGED nextId
           ELSE IF title = ""
             THEN /\ reqs' = [reqs EXCEPT ![s] = Respond(r, 400, "Title is required")]
                  /\ UNCHANGED nextId
           ELSE IF description = ""
             THEN /\ reqs' = [reqs EXCEPT ![s] = Respond(r, 400, "Description is required")]
                  /\ UNCHANGED nextId
           ELSE IF ~SelfHealNil /\ GuardStops(guardResult)
             THEN /\ reqs' = [reqs EXCEPT ![s] =
                        Respond([r EXCEPT !.guard = guard], 400,
                                "Your feedback couldn't be processed. Please rephrase and try again.")]
                  /\ UNCHANGED nextId
           ELSE IF ~dbOk
             THEN /\ reqs' = [reqs EXCEPT ![s] =
                        Respond([r EXCEPT !.guard = guard, !.create = "failed"],
                                500, "Failed to save feedback")]
                  /\ UNCHANGED nextId
           ELSE /\ nextId' = nextId + 1
                /\ reqs' = [reqs EXCEPT ![s] =
                      IF SelfHealNil
                      THEN Respond([r EXCEPT !.fb = [feedback EXCEPT !.ID = nextId],
                                             !.guard = guard, !.create = "ok"],
                                   201, "Feedback submitted successfully")
                      ELSE [r EXCEPT !.fb = [feedback EXCEPT !.ID = nextId],
                                     !.guard = guard, !.create = "ok",
                                     !.pc = "created"]]
        /\ UNCHANGED <<probe, config, llmReplies, now, isRunning, lastRun, mu, analysis,
                       statusPc, crashed>>

----------------------------------------------------------------------------
(* Trigger policy *)

isAdminAnyone(c, email) == TRUE

\* Trigger.isAdmin
isAdmin(c, email) ==
    IF c.AdminEmails = {} THEN FALSE
    ELSE \E admin \in c.AdminEmails :
            ToLower(TrimSpace(admin)) = ToLower(TrimSpace(email))

isAllowedTypeExact(c, feedbackType) ==
    \E i \in 1..Len(c.AllowedTypes) : c.AllowedTypes[i] = feedbackType

\* Trigger.isAllowedType
isAllowedType(c, feedbackType) ==
    \E i \in 1..Len(c.AllowedTypes) :
        \/ ToLower(c.AllowedTypes[i]) = "all"
        \/ ToLower(c.AllowedTypes[i]) = ToLower(TrimSpace(feedbackType))

\* CanTrigger reaches its host probes (os.Stat, docker ps): opencode mode, admin.
NeedsProbes(c, fb) ==
    c.Enabled /\ c.Mode = "opencode" /\ isAdmin(c, fb.UserEmail)

MissingKeyNever(c) == FALSE

\* CanTrigger, analyze mode: no API key is configured
MissingKey(c) == c.LLMAPIKey = ""

\* CanTrigger before it takes the lock: the reason of the first failing check,
\* "" when all pass.  containerRunning is what docker ps reported.
PolicyReason(c, fb, containerRunning) ==
    IF ~c.Enabled THEN "self-healing disabled"
    ELSE IF c.Mode = "opencode" /\ ~isAdmin(c, fb.UserEmail)
         THEN "opencode mode requires admin privileges"
    ELSE IF c.Mode = "opencode" /\ ~c.ScriptExists THEN "trigger script not found"
    ELSE IF c.Mode = "opencode" /\ ~containerRunning THEN "opencode container not running"
    ELSE IF c.Mode # "opencode" /\ MissingKey(c) THEN "LLM_API_KEY not configured"
    ELSE IF ~isAllowedType(c, fb.Type)
         THEN "feedback type '" \o fb.Type \o "' not allowed for self-healing"
    ELSE ""

\* time.Since(t)
Since(t) == now - t

\* Duration.String of a whole number of ticks
DurationString(ticks) ==
    CASE ticks = 0 -> "0s"
      [] ticks = 1 -> "30m0s"
      [] ticks = 2 -> "1h0m0s"
      [] OTHER -> "1h30m0s"

CooldownNeverActive == FALSE

\* CanTrigger: the cooldown test
CooldownActive == Since(lastRun) < Cooldown

\* CanTrigger under the lock
RateReason ==
    IF isRunning THEN "self-healing already in progress"
    ELSE IF CooldownActive
         THEN "cooldown active, " \o DurationString(Cooldown - Since(lastRun)) \o " remaining"
    ELSE ""

\* HandleSubmit when CanTrigger denied: log the reason, answer success
Deny(r, reason) ==
    Respond([r EXCEPT !.asked = TRUE, !.reason = reason],
            201, "Feedback submitted successfully")

\* CanTrigger, the checks that need no host probe
CanTriggerChecks(s) ==
    LET r == reqs[s] IN
    /\ At(r, "created")
    /\ reqs' = [reqs EXCEPT ![s] =
          IF NeedsProbes(config, r.fb) THEN [r EXCEPT !.pc = "probing", !.asked = TRUE]
          ELSE IF PolicyReason(config, r.fb, FALSE) # ""
               THEN Deny(r, PolicyReason(config, r.fb, FALSE))
          ELSE [r EXCEPT !.pc = "locking", !.asked = TRUE]]
    /\ UNCHANGED <<probe, config, llmReplies, now, isRunning, lastRun, mu, nextId,
                   analysis, statusPc, crashed>>

\* CanTrigger in opencode mode: os.Stat and isContainerRunning have answered
CanTriggerProbed(s, containerRunning) ==
    LET r == reqs[s] IN
    /\ At(r, "probing")
    /\ reqs' = [reqs EXCEPT ![s] =
          IF PolicyReason(config, r.fb, containerRunning) # ""
          THEN Deny(r, PolicyReason(config, r.fb, containerRunning))
          ELSE [r EXCEPT !.pc = "locking"]]
    /\ UNCHANGED <<probe, config, llmReplies, now, isRunning, lastRun, mu, nextId,
                   analysis, statusPc, crashed>>

FlagAfterCanTriggerTaken == TRUE

\* CanTrigger reads the flag under the lock and leaves it as it is
FlagAfterCanTrigger == isRunning

\* CanTrigger from t.mu.Lock() to the deferred Unlock, and the handler's
\* go func() and response on admission
CanTriggerLocked(s) ==
    LET r == reqs[s] IN
    /\ At(r, "locking")
    /\ mu = "free"
    /\ reqs' = [reqs EXCEPT ![s] =
          IF RateReason # "" THEN Deny(r, RateReason)
          ELSE [r EXCEPT !.pc = "spawned", !.admitted = TRUE, !.status = 201,
                         !.message = "Feedback submitted. Self-healing analysis started."]]
    /\ isRunning' = FlagAfterCanTrigger
    /\ UNCHANGED <<probe, config, llmReplies, now, lastRun, mu, nextId,
                   analysis, statusPc, crashed>>

----------------------------------------------------------------------------
(* Agent loop *)

(* Paths are sequences of one-character strings *)

\* The string of a path
RECURSIVE Str(_)
Str(p) == IF p = <<>> THEN "" ELSE p[1] \o Str(Tail(p))

\* strings.HasPrefix
HasPrefix(s, prefix) ==
    Len(prefix) <= Len(s) /\ SubSeq(s, 1, Len(prefix)) = prefix

\* The elements of a path between its separators
RECURSIVE SplitFrom(_, _, _, _)
SplitFrom(p, i, cur, acc) ==
    IF i > Len(p) THEN Append(acc, cur)
    ELSE IF p[i] = "/" THEN SplitFrom(p, i + 1, <<>>, Append(acc, cur))
    ELSE SplitFrom(p, i + 1, Append(cur, p[i]), acc)

Split(p) == SplitFrom(p, 1, <<>>, <<>>)

DotDot == <<".", ".">>

\* filepath.Clean, the pass over the elements: drop empty and "." elements,
\* let ".." cancel the element before it, drop ".." at the root
RECURSIVE CleanElements(_, _, _, _)
CleanElements(elems, i, rooted, out) ==
    IF i > Len(elems) THEN out
    ELSE IF elems[i] = <<>> \/ elems[i] = <<".">>
         THEN CleanElements(elems, i + 1, rooted, out)
    ELSE IF elems[i] = DotDot
         THEN IF out # <<>> /\ out[Len(out)] # DotDot
              THEN CleanElements(elems, i + 1, rooted, SubSeq(out, 1, Len(out) - 1))
              ELSE IF rooted THEN CleanElements(elems, i + 1, rooted, out)
              ELSE CleanElements(elems, i + 1, rooted, Append(out, DotDot))
    ELSE CleanElements(elems, i + 1, rooted, Append(out, elems[i]))

\* The elements joined by the separator
RECURSIVE JoinElements(_)
JoinElements(elems) ==
    IF elems = <<>> THEN <<>>
    ELSE IF Len(elems) = 1 THEN elems[1]
    ELSE elems[1] \o <<"/">> \o JoinElements(Tail(elems))

IsAbs(p) == p # <<>> /\ p[1] = "/"

\* filepath.Clean
Clean(path) ==
    LET body == JoinElements(CleanElements(Split(path), 1, IsAbs(path), <<>>))
    IN  IF IsAbs(path) THEN <<"/">> \o body
        ELSE IF body = <<>> THEN <<".">>
        ELSE body

\* filepath.Join of two elements: empty elements are ignored, the result is cleaned
Join(a, b) ==
    IF a = <<>> /\ b = <<>> THEN <<>>
    ELSE IF a = <<>> THEN Clean(b)
    ELSE IF b = <<>> THEN Clean(a)
    ELSE Clean(a \o <<"/">> \o b)

\* The working directory of the process
Cwd == <<"/", "a">>

\* filepath.Abs
Abs(p) == IF IsAbs(p) THEN Clean(p) ELSE Join(Cwd, p)

\* The limit on a file's size (100*1024 bytes)
SizeCap == 102400

\* The host's file tree: absolute path -> directory, or file with size and content
Dir == [dir |-> TRUE, size |-> 0, content |-> ""]
File(size, content) == [dir |-> FALSE, size |-> size, content |-> content]

FileSystem ==
    ( <<"/">> :> Dir ) @@
    ( <<"/", "a">> :> Dir ) @@
    ( <<"/", "a", "/", "a">> :> File(12, "package main") ) @@
    ( <<"/", "a", "/", ".", "a">> :> File(6, "hidden") ) @@
    ( <<"/", "a", "/", "a", "a">> :> Dir ) @@
    ( <<"/", "a", "/", "a", "a", "/", "a">> :> File(SizeCap, "at the cap") ) @@
    ( <<"/", "a", "/", "a", "a", "/", "a", "a">> :> File(SizeCap + 1, "over the cap") ) @@
    ( <<"/", "a", "/", "a", ".">> :> Dir ) @@
    ( <<"/", "a", "a">> :> File(6, "secret") ) @@
    ( <<"/", "a", ".">> :> File(6, "secret") )

EscapesTextuallyNever(cleanPath) == FALSE

\* The first check of both tools on the cleaned path
EscapesTextually(cleanPath) ==
    HasPrefix(cleanPath, DotDot) \/ HasPrefix(cleanPath, <<"/">>)

\* The second check of both tools, on the absolute paths
EscapesAbsolutely(sourceDir, fullPath) == ~HasPrefix(Abs(fullPath), Abs(sourceDir))

OverCapFromCap(size) == size >= SizeCap

\* getFileContent: the file is larger than the limit
OverCap(size) == size > SizeCap

Failure(text) == [kind |-> "error", text |-> text]
Content(text) == [kind |-> "content", text |-> text]

\* LLMAnalyzer.getFileContent, with the branch it returned from
getFileContentOutcome(sourceDir, path) ==
    LET cleanPath == Clean(path)
        fullPath == Join(sourceDir, cleanPath)
    IN  IF sourceDir = <<>> THEN Failure("Error: Source directory not configured")
        ELSE IF EscapesTextually(cleanPath)
             THEN Failure("Error: Invalid path - must be relative within source directory")
        ELSE IF EscapesAbsolutely(sourceDir, fullPath)
             THEN Failure("Error: Path escapes source directory")
        ELSE IF Abs(fullPath) \notin DOMAIN FileSystem
             THEN Failure("Error: File not found: " \o Str(path))
        ELSE IF FileSystem[Abs(fullPath)].dir
             THEN Failure("Error: Path is a directory, not a file: " \o Str(path))
        ELSE IF OverCap(FileSystem[Abs(fullPath)].size)
             THEN Failure("Error: File too large (" \o ToString(FileSystem[Abs(fullPath)].size)
                          \o " bytes, max 100KB)")
        ELSE Content(FileSystem[Abs(fullPath)].content)

\* LLMAnalyzer.getFileContent
getFileContent(sourceDir, path) == getFileContentOutcome(sourceDir, path).text

\* Byte order of the characters paths are made of
CharRank(c) == CASE c = "." -> 46 [] c = "/" -> 47 [] OTHER -> 97

\* x sorts before y, as os.ReadDir sorts entries by name
RECURSIVE Less(_, _)
Less(x, y) ==
    IF y = <<>> THEN FALSE
    ELSE IF x = <<>> THEN TRUE
    ELSE IF x[1] # y[1] THEN CharRank(x[1]) < CharRank(y[1])
    ELSE Less(Tail(x), Tail(y))

\* The names of the entries of the directory at absDir
Entries(absDir) ==
    LET stem == IF absDir = <<"/">> THEN absDir ELSE absDir \o <<"/">>
    IN  { SubSeq(q, Len(stem) + 1, Len(q)) :
            q \in { q \in DOMAIN FileSystem :
                      /\ HasPrefix(q, stem) /\ Len(q) > Len(stem)
                      /\ \A k \in (Len(stem) + 1)..Len(q) : q[k] # "/" } }

\* listFiles: hidden entries and dependency folders are not listed
Listed(name) ==
    ~HasPrefix(name, <<".">>) /\ Str(name) \notin {"node_modules", "vendor", "__pycache__"}

\* listFiles: the listed names in order, directories with a trailing slash,
\* joined by newlines
RECURSIVE Listing(_, _)
Listing(absDir, names) ==
    IF names = {} THEN ""
    ELSE LET name == CHOOSE n \in names : \A m \in names : m = n \/ Less(n, m)
             stem == IF absDir = <<"/">> THEN absDir ELSE absDir \o <<"/">>
             shown == Str(name) \o (IF FileSystem[stem \o name].dir THEN "/" ELSE "")
         IN  IF names = {name} THEN shown
             ELSE shown \o "\n" \o Listing(absDir, names \ {name})

\* LLMAnalyzer.listFiles, with the branch it returned from
listFilesOutcome(sourceDir, path) ==
    LET cleanPath == IF Clean(path) = <<".">> THEN <<>> ELSE Clean(path)
        fullPath == Join(sourceDir, cleanPath)
        names == { n \in Entries(Abs(fullPath)) : Listed(n) }
    IN  IF sourceDir = <<>> THEN Failure("Error: Source directory not configured")
        ELSE IF EscapesTextually(cleanPath)
             THEN Failure("Error: Invalid path - must be relative within source directory")
        ELSE IF EscapesAbsolutely(sourceDir, fullPath)
             THEN Failure("Error: Path escapes source directory")
        ELSE IF Abs(fullPath) \notin DOMAIN FileSystem
             THEN Failure("Error: Directory not found: " \o Str(path))
        ELSE IF ~FileSystem[Abs(fullPath)].dir
             THEN Failure("Error reading directory: not a directory")
        ELSE IF names = {} THEN Content("Directory is empty or contains only hidden files")
        ELSE Content(Listing(Abs(fullPath), names))

\* LLMAnalyzer.listFiles
listFiles(sourceDir, path) == listFilesOutcome(sourceDir, path).text

\* Config.SourceDir as DefaultConfig sets it; runAnalyze also turns "" into "."
SourceDir == <<".">>

executeToolUnparsed(toolCall) ==
    CASE toolCall.name = "get_file_content" -> getFileContent(SourceDir, toolCall.path)
      [] toolCall.name = "list_files" -> listFiles(SourceDir, toolCall.path)
      [] OTHER -> "Unknown tool: " \o toolCall.name

\* LLMAnalyzer.executeTool
executeTool(toolCall) ==
    IF ~toolCall.argsOk THEN "Error parsing arguments: unexpected end of JSON input"
    ELSE CASE toolCall.name = "get_file_content" -> getFileContent(SourceDir, toolCall.path)
           [] toolCall.name = "list_files" -> listFiles(SourceDir, toolCall.path)
           [] OTHER -> "Unknown tool: " \o toolCall.name

ToolCallA == [id |-> "call_a", name |-> "get_file_content", argsOk |-> TRUE,
              path |-> <<".", "/", "a">>]

\* Answers of the chat endpoint: a transport failure, a body with no choices,
\* or choices[0] with its finish_reason, content and tool calls
ErrorReply == [kind |-> "error", finish |-> "", content |-> "", toolCalls |-> <<>>]
EmptyReply == [kind |-> "empty", finish |-> "", content |-> "", toolCalls |-> <<>>]
Choice(finish, content, toolCalls) ==
    [kind |-> "choice", finish |-> finish, content |-> content, toolCalls |-> toolCalls]

SystemReplies ==
    { ErrorReply, EmptyReply,
      Choice("stop", "## Summary", <<>>),
      Choice("stop", "", <<>>),
      Choice("stop", "## Summary", <<ToolCallA>>),
      Choice("tool_calls", "", <<ToolCallA>>) }

\* An assistant message that says something and asks for a tool
ExploringReplies == { Choice("tool_calls", "Let me look", <<ToolCallA>>) }

\* Every answer the model of the endpoint knows
AllReplies == SystemReplies \cup ExploringReplies

\* A tool invocation of an assistant message: argsOk is whether json.Unmarshal
\* accepts the arguments, path is args["path"] (the empty string when the
\* arguments are null or have no such key)
ToolCall(id, name, argsOk, path) == [id |-> id, name |-> name, argsOk |-> argsOk, path |-> path]

PasswdPath ==
    <<".", ".", "/", ".", ".", "/", "e", "t", "c", "/", "p", "a", "s", "s", "w", "d">>

\* Invocations the endpoint may ask for: reads that the sandbox rejects or
\* serves, a listing, an unknown function, arguments that are not JSON
ToolCalls ==
    { ToolCall("call_p", "get_file_content", TRUE, PasswdPath),
      ToolCall("call_m", "get_file_content", TRUE, <<"a", "a", "a">>),
      ToolCall("call_d", "get_file_content", TRUE, <<"a", "a">>),
      ToolCall("call_c", "get_file_content", TRUE, <<"a", "a", "/", "a">>),
      ToolCall("call_o", "get_file_content", TRUE, <<"a", "a", "/", "a", "a">>),
      ToolCall("call_l", "list_files", TRUE, <<".">>),
      ToolCall("call_u", "run_shell", TRUE, <<"a">>),
      ToolCall("call_n", "get_file_content", TRUE, <<>>),
      ToolCall("call_j", "get_file_content", FALSE, <<>>) }

\* Assistant messages that ask for tools: one invocation, or three in a row
ToolReplies ==
    { Choice("tool_calls", "", <<c>>) : c \in ToolCalls } \cup
    { Choice("tool_calls", "Looking",
             << ToolCall("call_3", "run_shell", TRUE, <<"a">>),
                ToolCall("call_1", "get_file_content", TRUE, PasswdPath),
                ToolCall("call_2", "get_file_content", TRUE, <<"a">>) >>),
      Choice("length", "Cut short", <<>>) }

EveryReply == AllReplies \cup ToolReplies

Message(role, content, toolCalls, toolCallID) ==
    [role |-> role, content |-> content, toolCalls |-> toolCalls, toolCallID |-> toolCallID]

\* Analyze: the initial conversation history
InitialMessages ==
    << Message("system", "persona", <<>>, ""), Message("user", "prompt", <<>>, "") >>

ToolMessagesNone(toolCalls) == <<>>

ToolMessagesReversed(toolCalls) ==
    [i \in 1..Len(toolCalls) |->
        Message("tool", executeTool(toolCalls[Len(toolCalls) + 1 - i]), <<>>,
                toolCalls[Len(toolCalls) + 1 - i].id)]

\* Analyze: the tool-role messages of one assistant message's invocations
ToolMessages(toolCalls) ==
    [i \in 1..Len(toolCalls) |->
        Message("tool", executeTool(toolCalls[i]), <<>>, toolCalls[i].id)]

LoopContinuesOneMore(i) == i + 1 <= maxIterations

\* Analyze: the loop goes on after iteration i (for i := 0; i < maxIterations; i++)
LoopContinues(i) == i + 1 < maxIterations

TerminatesWithoutCalls(reply) == Len(reply.toolCalls) = 0

\* Analyze: the loop's termination condition
Terminates(reply) == reply.finish = "stop" \/ Len(reply.toolCalls) = 0

NonEmptyAssistant(messages) ==
    { i \in 1..Len(messages) : messages[i].role = "assistant" /\ messages[i].content # "" }

Max(S) == CHOOSE x \in S : \A y \in S : y <= x

FallbackLastOnly(messages) ==
    IF messages[Max({ i \in 1..Len(messages) : messages[i].role = "assistant" })].content # ""
    THEN [done |-> TRUE, err |-> "", messages |-> messages, iter |-> maxIterations,
          output |-> messages[Max({ i \in 1..Len(messages) :
                                      messages[i].role = "assistant" })].content]
    ELSE [done |-> TRUE, output |-> "", messages |-> messages, iter |-> maxIterations,
          err |-> "analysis incomplete after 10 tool iterations"]

\* Analyze after the loop: the last non-empty assistant text, or the error
Fallback(messages) ==
    IF NonEmptyAssistant(messages) # {}
    THEN [done |-> TRUE, output |-> messages[Max(NonEmptyAssistant(messages))].content,
          err |-> "", messages |-> messages, iter |-> maxIterations]
    ELSE [done |-> TRUE, output |-> "", messages |-> messages, iter |-> maxIterations,
          err |-> "analysis incomplete after 10 tool iterations"]

\* callLLM returned an error, or a body whose choices are empty
CallFails(reply, expired) == expired \/ reply.kind \in {"error", "empty"}

CallFailedRetries(messages, i, err) ==
    [done |-> FALSE, output |-> "", err |-> "", messages |-> messages, iter |-> i]

\* Analyze: what a failed callLLM (or an empty choices list) returns
CallFailed(messages, i, err) ==
    [done |-> TRUE, output |-> "", err |-> err, messages |-> messages, iter |-> i]

\* Analyze (tool-calling loop): iteration i of the loop on the endpoint's reply.
\* expired: the run's context deadline has passed, so the request fails.
AnalyzeIteration(messages, i, reply, expired) ==
    IF expired THEN CallFailed(messages, i, "LLM call failed: context deadline exceeded")
    ELSE IF reply.kind = "error" THEN CallFailed(messages, i, "LLM call failed: LLM API error")
    ELSE IF reply.kind = "empty" THEN CallFailed(messages, i, "no response from LLM")
    ELSE LET appended == Append(messages,
                                Message("assistant", reply.content, reply.toolCalls, ""))
         IN  IF Terminates(reply)
             THEN [done |-> TRUE, output |-> reply.content, err |-> "",
                   messages |-> appended, iter |-> i]
             ELSE IF LoopContinues(i)
             THEN [done |-> FALSE, output |-> "", err |-> "",
                   messages |-> appended \o ToolMessages(reply.toolCalls), iter |-> i + 1]
             ELSE Fallback(appended \o ToolMessages(reply.toolCalls))

\* Analyze (single-turn build, tool calling disabled): one call, no history kept
AnalyzeSingleTurn(messages, reply, expired) ==
    IF expired THEN CallFailed(messages, 0, "LLM call failed: context deadline exceeded")
    ELSE IF reply.kind = "error" THEN CallFailed(messages, 0, "LLM call failed: LLM API error")
    ELSE IF reply.kind = "empty" THEN CallFailed(messages, 0, "no response from LLM")
    ELSE [done |-> TRUE, output |-> reply.content, err |-> "",
          messages |-> messages, iter |-> 0]

----------------------------------------------------------------------------
(* The detached worker: TriggerAsync, execute, and the handler's goroutine *)

StrategyResultDropsOutput(mode, output, err) ==
    IF err # ""
    THEN [Triggered |-> TRUE, Success |-> FALSE, Message |-> mode \o " execution failed",
          Output |-> "", Error |-> err]
    ELSE [Triggered |-> TRUE, Success |-> TRUE, Message |-> "analysis completed",
          Output |-> "", Error |-> ""]

\* execute: the result for a strategy's (output, err)
StrategyResult(mode, output, err) ==
    IF err # ""
    THEN [Triggered |-> TRUE, Success |-> FALSE, Message |-> mode \o " execution failed",
          Output |-> output, Error |-> err]
    ELSE [Triggered |-> TRUE, Success |-> TRUE, Message |-> "analysis completed",
          Output |-> output, Error |-> ""]

DryRunOff == FALSE

\* execute: if t.config.DryRun
DryRun == config.DryRun

RejectedUntriggered ==
    [Triggered |-> FALSE, Success |-> FALSE, Message |-> "already running",
     Output |-> "", Error |-> ""]

\* execute: the result when the flag is already set
Rejected ==
    [Triggered |-> TRUE, Success |-> FALSE, Message |-> "already running",
     Output |-> "", Error |-> ""]

FlagOnRejectCleared == FALSE

\* execute: the flag when it returns "already running"
FlagOnReject == isRunning

AlreadyRunningUnchecked == FALSE

LastRunOnRejectStamped == now

\* execute: the "already running" return leaves lastRun as it is
LastRunOnReject == lastRun

\* execute: the single-flight test under the lock
AlreadyRunning == isRunning

RunStampForgotten == lastRun

\* execute: t.lastRun = time.Now()
RunStamp == now

\* execute from t.mu.Lock() to t.mu.Unlock(): reject, or take the flag and
\* stamp lastRun; the strategy's context deadline starts in the same tick
ExecuteAcquire(s) ==
    LET r == reqs[s] IN
    /\ At(r, "spawned")
    /\ mu = "free"
    /\ IF AlreadyRunning
       THEN /\ reqs' = [reqs EXCEPT ![s] =
                  [r EXCEPT !.pc = "returned",
                            !.result = Rejected]]
            /\ lastRun' = LastRunOnReject
            /\ isRunning' = FlagOnReject
       ELSE /\ isRunning' = TRUE
            /\ lastRun' = RunStamp
            /\ reqs' = [reqs EXCEPT ![s] =
                  [r EXCEPT !.pc = "running", !.stamp = now,
                            !.messages = IF config.Mode # "opencode" /\ ~DryRun
                                         THEN InitialMessages ELSE <<>>]]
    /\ UNCHANGED <<probe, config, llmReplies, now, mu, nextId, analysis, statusPc, crashed>>

\* r.Context() of the intake request: cancelled once HandleSubmit has answered
RequestCancelled(r) == r.status # 0

WorkerContextOfRequest == "request"

\* HandleSubmit's goroutine: the context it hands to TriggerAsync
WorkerContext == "background"

\* The parent of the run's context has been cancelled
ParentCancelled(r) == WorkerContext = "request" /\ RequestCancelled(r)

DeadlineNever(r) == MaxNow + 1

\* runAnalyze, runOpenCode: context.WithTimeout from the start of the run
Deadline(r) == r.stamp + Timeout

\* execute with DryRun set
ExecuteDryRun(s) ==
    LET r == reqs[s] IN
    /\ At(r, "running")
    /\ DryRun
    /\ reqs' = [reqs EXCEPT ![s] =
          [r EXCEPT !.pc = "finishing",
                    !.result = [Triggered |-> TRUE, Success |-> TRUE,
                                Message |-> "dry run - would execute " \o config.Mode,
                                Output |-> "Feedback: " \o r.fb.Title \o " - " \o r.fb.Description,
                                Error |-> ""]]]
    /\ UNCHANGED <<probe, config, llmReplies, now, isRunning, lastRun, mu, nextId,
                   analysis, statusPc, crashed>>

\* runAnalyze: one callLLM of Analyze and what the loop does with its answer
AnalyzeTurn(s, reply) ==
    LET r == reqs[s]
        expired == now >= Deadline(r)
        cancelled == ~expired /\ ParentCancelled(r)
        step == IF cancelled
                THEN CallFailed(r.messages, r.iter, "LLM call failed: context canceled")
                ELSE IF config.ToolCalling
                THEN AnalyzeIteration(r.messages, r.iter, reply, expired)
                ELSE AnalyzeSingleTurn(r.messages, reply, expired)
    IN  /\ At(r, "running")
        /\ config.Mode # "opencode" /\ ~DryRun
        /\ reply \in llmReplies
        /\ reqs' = [reqs EXCEPT ![s] =
              [r EXCEPT !.calls = r.calls + 1,
                        !.failed = r.failed + (IF CallFails(reply, expired \/ cancelled)
                                               THEN 1 ELSE 0),
                        !.answer1 = IF r.calls = 0 /\ ~expired /\ ~cancelled
                                       /\ reply.kind = "choice"
                                       /\ reply.finish = "stop" /\ reply.toolCalls = <<>>
                                    THEN [given |-> TRUE, content |-> reply.content]
                                    ELSE r.answer1,
                        !.messages = step.messages,
                        !.iter = step.iter,
                        !.pc = IF step.done THEN "finishing" ELSE "running",
                        !.result = IF step.done
                                   THEN StrategyResult(config.Mode, step.output, step.err)
                                   ELSE r.result]]
        /\ UNCHANGED <<probe, config, llmReplies, now, isRunning, lastRun, mu, nextId,
                       analysis, statusPc, crashed>>

\* What the trigger script may print
Stdouts == {"", "Branch: fix/crash"}

\* runOpenCode: the script ran to its end (exitOk) or was killed at the deadline
RunOpenCode(s, exitOk, stdout) ==
    LET r == reqs[s]
        expired == now >= Deadline(r)
        err == IF expired THEN "timeout after 30m0s"
               ELSE IF ParentCancelled(r) THEN "signal: killed: "
               ELSE IF ~exitOk THEN "exit status 1: stderr"
               ELSE ""
    IN  /\ At(r, "running")
        /\ config.Mode = "opencode" /\ ~DryRun
        /\ reqs' = [reqs EXCEPT ![s] =
              [r EXCEPT !.pc = "finishing",
                        !.result = StrategyResult(config.Mode,
                                                  IF err = "" THEN stdout ELSE "", err)]]
        /\ UNCHANGED <<probe, config, llmReplies, now, isRunning, lastRun, mu, nextId,
                       analysis, statusPc, crashed>>

\* An unhandled defect in the strategy: the goroutine unwinds through the defers
Panic(s) ==
    LET r == reqs[s] IN
    /\ At(r, "running")
    /\ ~DryRun
    /\ reqs' = [reqs EXCEPT ![s] = [r EXCEPT !.pc = "finishing", !.panicking = TRUE]]
    /\ UNCHANGED <<probe, config, llmReplies, now, isRunning, lastRun, mu, nextId,
                   analysis, statusPc, crashed>>

ReleaseFlagForgotten == isRunning

\* execute: the deferred reset of the flag
ReleaseFlag == FALSE

\* execute's deferred func, then its return through TriggerAsync's channel; an
\* unrecovered panic ends the process once the defers have run
ExecuteRelease(s) ==
    LET r == reqs[s] IN
    /\ At(r, "finishing")
    /\ mu = "free"
    /\ isRunning' = ReleaseFlag
    /\ crashed' = r.panicking
    /\ reqs' = [reqs EXCEPT ![s] =
          [r EXCEPT !.pc = IF r.panicking THEN "dead" ELSE "returned",
                    !.messages = <<>>, !.iter = 0, !.calls = 0, !.failed = 0,
                    !.stamp = ZeroTime]]
    /\ UNCHANGED <<probe, config, llmReplies, now, lastRun, mu, nextId, analysis, statusPc>>

StoresAnalysisOnAnySuccess(result) == result.Success

\* HandleSubmit's goroutine: the result is stored when it is a success with text
StoresAnalysis(result) == result.Success /\ result.Output # ""

\* HandleSubmit's goroutine after result := <-resultCh
HandleResult(s) ==
    LET r == reqs[s] IN
    /\ At(r, "returned")
    /\ analysis' = IF StoresAnalysis(r.result)
                   THEN [analysis EXCEPT ![r.fb.ID] = Append(@, r.result.Output)]
                   ELSE analysis
    /\ reqs' = [reqs EXCEPT ![s] = [r EXCEPT !.pc = "done"]]
    /\ UNCHANGED <<probe, config, llmReplies, now, isRunning, lastRun, mu, nextId,
                   statusPc, crashed>>

----------------------------------------------------------------------------
(* Status *)

\* Status: t.mu.Lock(), the snapshot of the fields, and the start of the
\* docker ps subprocess of isContainerRunning
StatusBegin ==
    /\ ~crashed
    /\ ~SelfHealNil
    /\ statusPc = "idle"
    /\ mu = "free"
    /\ mu' = "status"
    /\ statusPc' = "probing"
    /\ UNCHANGED <<probe, config, llmReplies, now, isRunning, lastRun, reqs, nextId,
                   analysis, crashed>>

\* Status: docker ps and os.Stat have answered; the deferred Unlock
StatusEnd ==
    /\ ~crashed
    /\ statusPc = "probing"
    /\ mu' = "free"
    /\ statusPc' = "idle"
    /\ UNCHANGED <<probe, config, llmReplies, now, isRunning, lastRun, reqs, nextId,
                   analysis, crashed>>

\* The wall clock advances
Tick ==
    /\ ~crashed
    /\ now < MaxNow
    /\ now' = now + 1
    /\ UNCHANGED <<probe, config, llmReplies, isRunning, lastRun, mu, reqs, nextId,
                   analysis, statusPc, crashed>>

----------------------------------------------------------------------------
(* Direct calls of single functions *)

NoProbe == [fn |-> "none", args |-> <<>>, out |-> <<>>]

\* The characters of the paths a tool call may carry, and the paths
PathChars == {"/", ".", "a"}
Paths == UNION { [1..n -> PathChars] : n \in 0..MaxPathLen }

\* Values of LLMAnalyzer.sourceDir
SourceDirs == { <<>>, <<".">>, <<"/", "a">>, <<"/", "a", "/">> }

\* One call of getFileContent on an analyzer rooted at sourceDir
CallGetFileContent(sourceDir, path) ==
    /\ probe = NoProbe
    /\ probe' = [fn |-> "get_file_content", args |-> <<sourceDir, path>>,
                 out |-> getFileContentOutcome(sourceDir, path)]
    /\ UNCHANGED <<config, llmReplies, now, isRunning, lastRun, mu, reqs, nextId,
                   analysis, statusPc, crashed>>

\* model.Feedback values CanTrigger may be asked about
Feedbacks ==
    { [ID |-> 1, Title |-> "Crash", Description |-> "It broke", Type |-> t, UserEmail |-> e] :
        t \in {"bug", " Bug ", "feature", "other"},
        e \in {"alice@co", " Alice@Co ", "eve@attacker.test", ""} }

FirstReasonRateFirst(policy, rate) == IF rate # "" THEN rate ELSE policy

\* CanTrigger: the checks before the lock come before those under it
FirstReason(policy, rate) == IF policy # "" THEN policy ELSE rate

\* One call of Trigger.CanTrigger on the trigger as it is; containerRunning is
\* what docker ps would report
CallCanTrigger(fb, containerRunning) ==
    LET reason == FirstReason(PolicyReason(config, fb, containerRunning), RateReason) IN
    /\ probe = NoProbe
    /\ mu = "free"
    /\ probe' = [fn |-> "CanTrigger", args |-> <<fb, containerRunning>>,
                 out |-> [ok |-> reason = "", reason |-> reason]]
    /\ UNCHANGED <<config, llmReplies, now, isRunning, lastRun, mu, reqs, nextId,
                   analysis, statusPc, crashed>>

\* strings.Split(output, "\n"): the lines of a text
RECURSIVE SplitLines(_, _, _, _)
SplitLines(output, i, cur, acc) ==
    IF i > Len(output) THEN Append(acc, cur)
    ELSE IF output[i] = "\n" THEN SplitLines(output, i + 1, << >>, Append(acc, cur))
    ELSE SplitLines(output, i + 1, Append(cur, output[i]), acc)

\* strings.Fields: the words of a line between its white space
RECURSIVE Fields(_, _, _, _)
Fields(line, i, cur, acc) ==
    IF i > Len(line) THEN IF cur = << >> THEN acc ELSE Append(acc, cur)
    ELSE IF line[i] \in {" ", "\t", "\r", "\n"}
         THEN Fields(line, i + 1, << >>, IF cur = << >> THEN acc ELSE Append(acc, cur))
    ELSE Fields(line, i + 1, Append(cur, line[i]), acc)

\* The part of Result that parseOutput fills in
NoArtifacts == [PRURL |-> << >>, PRNumber |-> 0, Branch |-> << >>]

OverwritesBranch(result) == TRUE

\* parseOutput: a fix/ or feature/ line gives the branch only while there is none
TakesBranch(result) == result.Branch = << >>

\* strings.Trim(word, cutset)
TrimCutset(word, cutset) ==
    LET kept == {i \in 1..Len(word) : word[i] \notin cutset}
    IN  IF kept = {} THEN << >>
        ELSE SubSeq(word, CHOOSE i \in kept : \A j \in kept : i <= j,
                          CHOOSE i \in kept : \A j \in kept : i >= j)

\* parseOutput: the pull request number of a URL that contains "/pull/":
\* strings.Split(url, "/pull/")[1], cut at its first "/", trimmed, and read by
\* fmt.Sscanf("%d"), which leaves the number as it was without leading digits
PullNumber(url, previous) ==
    LET pull == <<"/", "p", "u", "l", "l", "/">>
        pulls == {i \in 1..(Len(url) - Len(pull) + 1) :
                    SubSeq(url, i, i + Len(pull) - 1) = pull}
        rest == SubSeq(url, (CHOOSE i \in pulls : \A j \in pulls : i <= j) + Len(pull),
                       Len(url))
        stops == {i \in 1..Len(rest) : rest[i] = "/"}
        numStr == TrimSpaceText(
                     IF stops = {} THEN rest
                     ELSE SubSeq(rest, 1, (CHOOSE i \in stops : \A j \in stops : i <= j) - 1))
        nondigits == {i \in 1..Len(numStr) : \A k \in 1..10 : Digits[k] # numStr[i]}
        leading == IF nondigits = {} THEN numStr
                   ELSE SubSeq(numStr, 1,
                               (CHOOSE i \in nondigits : \A j \in nondigits : i <= j) - 1)
    IN  IF leading = << >> THEN previous ELSE IntValue(leading)

\* parseOutput: the pull request of a line, if one of its words names one
ScanPull(line, result) ==
    LET github == <<"g", "i", "t", "h", "u", "b", ".", "c", "o", "m">>
        pull == <<"/", "p", "u", "l", "l", "/">>
        words == Fields(line, 1, << >>, << >>)
        hits == {k \in 1..Len(words) : Contains(words[k], github) /\ Contains(words[k], pull)}
    IN  IF Contains(line, github) /\ Contains(line, pull) /\ hits # {}
        THEN LET url == TrimCutset(words[CHOOSE k \in hits : \A j \in hits : k <= j],
                                   {"(", ")", "[", "]", "<", ">"})
             IN  [result EXCEPT !.PRURL = url, !.PRNumber = PullNumber(url, @)]
        ELSE result

\* parseOutput: the body of its loop, on one line of the output
ScanLine(rawLine, result) ==
    LET line == TrimSpaceText(rawLine)
        withPR == ScanPull(line, result)
    IN  IF HasPrefix(line, <<"B", "r", "a", "n", "c", "h", ":">>)
        THEN [withPR EXCEPT !.Branch = TrimSpaceText(SubSeq(line, 8, Len(line)))]
        ELSE IF HasPrefix(line, <<"f", "i", "x", "/">>) \/ HasPrefix(line, <<"f", "e", "a", "t", "u", "r", "e", "/">>)
             THEN IF TakesBranch(withPR)
                  THEN [withPR EXCEPT !.Branch = Fields(line, 1, << >>, << >>)[1]]
                  ELSE withPR
        ELSE withPR

\* Trigger.parseOutput: the loop over the lines from line i on
RECURSIVE ScanLines(_, _, _)
ScanLines(lines, i, result) ==
    IF i > Len(lines) THEN result
    ELSE ScanLines(lines, i + 1, ScanLine(lines[i], result))

\* Trigger.parseOutput
parseOutput(output, result) ==
    ScanLines(SplitLines(output, 1, << >>, << >>), 1, result)

\* Lines the trigger script may print
ScriptLines ==
    { <<"B", "r", "a", "n", "c", "h", ":", " ", "f", "i", "x", "/", "a">>,
      <<"B", "r", "a", "n", "c", "h", ":", "f", "i", "x", "/", "b">>,
      <<"f", "i", "x", "/", "c", " ", "p", "u", "s", "h", "e", "d">>,
      <<"f", "e", "a", "t", "u", "r", "e", "/", "d">>,
      <<" ", "f", "i", "x", "/", "e">>,
      <<"d", "o", "n", "e">>,
      <<"(", "g", "i", "t", "h", "u", "b", ".", "c", "o", "m", "/", "o", "/", "r", "/", "p", "u", "l", "l", "/", "7", ")">>,
      <<"B", "r", "a", "n", "c", "h", ":">> }

RECURSIVE JoinLines(_)
\* strings.Join(lines, "\n")
JoinLines(lines) ==
    IF lines = << >> THEN << >>
    ELSE IF Len(lines) = 1 THEN lines[1]
    ELSE lines[1] \o <<"\n">> \o JoinLines(Tail(lines))

\* What the trigger script may write to its standard output
Outputs ==
    { JoinLines(lines) :
        lines \in UNION { [1..n -> ScriptLines] : n \in 0..MaxLines } }

\* TriggerAsync: the capacity of the result channel (make(chan Result, 1))
ChannelCapacity == 1

\* An unbuffered channel never has room
HasRoomUnbuffered(buf) == FALSE

\* A send into a buffered channel goes through while the buffer has room
HasRoom(buf) == Len(buf) < ChannelCapacity

\* Results execute may return to TriggerAsync's goroutine
Results ==
    { Rejected } \cup
    { StrategyResult(config.Mode, output, err) :
        output \in {"", "## Summary"}, err \in {"", "exit status 1: stderr"} }

\* What a receive yields (v, ok := <-resultCh): a value, or the zero value of
\* a closed and empty channel
Received(value) == [ok |-> TRUE, value |-> value]
ReceivedClosed == [ok |-> FALSE, value |-> NoResult]

\* A caller gets the channel from TriggerAsync; the worker goroutine starts
CallTriggerAsync ==
    /\ probe = NoProbe
    /\ probe' = [fn |-> "TriggerAsync", args |-> <<>>,
                 out |-> [worker |-> "executing", result |-> NoResult, buf |-> <<>>,
                          closed |-> FALSE, caller |-> "holding", got |-> <<>>]]
    /\ UNCHANGED <<config, llmReplies, now, isRunning, lastRun, mu, reqs, nextId,
                   analysis, statusPc, crashed>>

\* TriggerAsync's goroutine: result := t.execute(ctx, feedback)
AsyncExecuteReturns ==
    /\ probe.fn = "TriggerAsync" /\ probe.out.worker = "executing"
    /\ \E result \in Results :
          probe' = [probe EXCEPT !.out.worker = "sending", !.out.result = result]
    /\ UNCHANGED <<config, llmReplies, now, isRunning, lastRun, mu, reqs, nextId,
                   analysis, statusPc, crashed>>

\* TriggerAsync's goroutine: resultCh <- result, which needs room in the
\* buffer or a receiver that waits
AsyncSend ==
    /\ probe.fn = "TriggerAsync" /\ probe.out.worker = "sending"
    /\ \/ /\ probe.out.caller = "receiving"
          /\ probe' = [probe EXCEPT !.out.worker = "closing", !.out.caller = "holding",
                                    !.out.got = Append(@, Received(probe.out.result))]
       \/ /\ probe.out.caller # "receiving"
          /\ HasRoom(probe.out.buf)
          /\ probe' = [probe EXCEPT !.out.worker = "closing",
                                    !.out.buf = Append(@, probe.out.result)]
    /\ UNCHANGED <<config, llmReplies, now, isRunning, lastRun, mu, reqs, nextId,
                   analysis, statusPc, crashed>>

\* TriggerAsync's goroutine: the deferred close(resultCh), and its end
AsyncClose ==
    /\ probe.fn = "TriggerAsync" /\ probe.out.worker = "closing"
    /\ probe' = IF probe.out.caller = "receiving"
                THEN [probe EXCEPT !.out.worker = "exited", !.out.closed = TRUE,
                                   !.out.caller = "holding",
                                   !.out.got = Append(@, ReceivedClosed)]
                ELSE [probe EXCEPT !.out.worker = "exited", !.out.closed = TRUE]
    /\ UNCHANGED <<config, llmReplies, now, isRunning, lastRun, mu, reqs, nextId,
                   analysis, statusPc, crashed>>

\* The caller receives from the channel: a buffered value, the zero value of
\* the closed channel, or it waits
AsyncReceive ==
    /\ probe.fn = "TriggerAsync" /\ probe.out.caller = "holding"
    /\ Len(probe.out.got) < MaxReceives
    /\ probe' = IF probe.out.buf # <<>>
                THEN [probe EXCEPT !.out.buf = Tail(@),
                                   !.out.got = Append(@, Received(Head(probe.out.buf)))]
                ELSE IF probe.out.closed
                THEN [probe EXCEPT !.out.got = Append(@, ReceivedClosed)]
                ELSE [probe EXCEPT !.out.caller = "receiving"]
    /\ UNCHANGED <<config, llmReplies, now, isRunning, lastRun, mu, reqs, nextId,
                   analysis, statusPc, crashed>>

\* The caller drops the channel and never receives from it
AsyncAbandon ==
    /\ probe.fn = "TriggerAsync" /\ probe.out.caller = "holding"
    /\ probe' = [probe EXCEPT !.out.caller = "gone"]
    /\ UNCHANGED <<config, llmReplies, now, isRunning, lastRun, mu, reqs, nextId,
                   analysis, statusPc, crashed>>

----------------------------------------------------------------------------
(* Specification *)

\* NewFeedbackHandler, NewTrigger: lastRun is the zero time, the flag is clear
Init ==
    /\ config \in Configs
    /\ llmReplies = SystemReplies
    /\ now = StartTime
    /\ isRunning = FALSE
    /\ lastRun = ZeroTime
    /\ mu = "free"
    /\ reqs = [s \in Ids |-> IdleReq]
    /\ nextId = 1
    /\ analysis = [id \in Ids |-> <<>>]
    /\ statusPc = "idle"
    /\ crashed = FALSE
    /\ probe = NoProbe

Next ==
    \/ \E s \in Ids, in \in Inputs, outcome \in GuardOutcomes, dbOk \in BOOLEAN :
          HandleSubmitIntake(s, in, outcome, dbOk)
    \/ \E s \in Ids : CanTriggerChecks(s)
    \/ \E s \in Ids, containerRunning \in BOOLEAN : CanTriggerProbed(s, containerRunning)
    \/ \E s \in Ids : CanTriggerLocked(s)
    \/ \E s \in Ids : ExecuteAcquire(s)
    \/ \E s \in Ids : ExecuteDryRun(s)
    \/ \E s \in Ids, reply \in AllReplies : AnalyzeTurn(s, reply)
    \/ \E s \in Ids, exitOk \in BOOLEAN, stdout \in Stdouts : RunOpenCode(s, exitOk, stdout)
    \/ \E s \in Ids : Panic(s)
    \/ \E s \in Ids : ExecuteRelease(s)
    \/ \E s \in Ids : HandleResult(s)
    \/ StatusBegin
    \/ StatusEnd
    \/ Tick

Spec == Init /\ [][Next]_vars

\* One submission in analyze mode against an endpoint that may give every answer
LoopInit ==
    /\ config = AnalyzeConfig
    /\ llmReplies = AllReplies
    /\ now = StartTime
    /\ isRunning = FALSE
    /\ lastRun = ZeroTime
    /\ mu = "free"
    /\ reqs = [s \in Ids |-> IdleReq]
    /\ nextId = 1
    /\ analysis = [id \in Ids |-> <<>>]
    /\ statusPc = "idle"
    /\ crashed = FALSE
    /\ probe = NoProbe

LoopNext ==
    \/ \E in \in Inputs, outcome \in GuardOutcomes, dbOk \in BOOLEAN :
          HandleSubmitIntake(1, in, outcome, dbOk)
    \/ CanTriggerChecks(1)
    \/ CanTriggerLocked(1)
    \/ ExecuteAcquire(1)
    \/ \E reply \in EveryReply : AnalyzeTurn(1, reply)
    \/ ExecuteRelease(1)
    \/ HandleResult(1)
    \/ Tick

LoopSpec == LoopInit /\ [][LoopNext]_vars

\* One submission in analyze mode against an endpoint that asks for tools in
\* one way, answers with text, or fails
ToolLoopInit ==
    /\ config = AnalyzeConfig
    /\ llmReplies \in { {reply, Choice("stop", "## Summary", <<>>),
                          Choice("stop", "## Summary", <<ToolCallA>>), ErrorReply} :
                            reply \in ToolReplies }
    /\ now = StartTime
    /\ isRunning = FALSE
    /\ lastRun = ZeroTime
    /\ mu = "free"
    /\ reqs = [s \in Ids |-> IdleReq]
    /\ nextId = 1
    /\ analysis = [id \in Ids |-> <<>>]
    /\ statusPc = "idle"
    /\ crashed = FALSE
    /\ probe = NoProbe

ToolLoopSpec == ToolLoopInit /\ [][LoopNext]_vars

\* Configurations the policy is exercised on: those of Configs, and others
\* with mixed-case entries, several types, no script
PolicyConfigs ==
    Configs \cup
    { [AnalyzeConfig EXCEPT !.Mode = "opencode", !.LLMAPIKey = "",
                            !.AdminEmails = {"Alice@Co"}, !.ScriptExists = TRUE,
                            !.AllowedTypes = parseAllowedTypes("Bug,feature")],
      [AnalyzeConfig EXCEPT !.Enabled = FALSE, !.LLMAPIKey = ""],
      [AnalyzeConfig EXCEPT !.AllowedTypes = parseAllowedTypes("ALL")],
      [AnalyzeConfig EXCEPT !.AllowedTypes = parseAllowedTypes("feature, bug")] }

\* Bodies with every combination of reporter and type
PolicyInputs ==
    Inputs \cup
    { [json |-> TRUE, title |-> "Crash", description |-> "It broke", type |-> t, email |-> e] :
        t \in {"bug", " Bug ", "feature", ""},
        e \in {"alice@co", " Alice@Co ", "eve@attacker.test", ""} }

\* One submission reaches a trigger that is in any state earlier runs can
\* leave it in: never run, running since lastRun, or idle since a run at lastRun
PolicyInit ==
    /\ config \in PolicyConfigs
    /\ llmReplies = SystemReplies
    /\ now \in StartTime..MaxNow
    /\ isRunning \in BOOLEAN
    /\ lastRun \in {ZeroTime} \cup StartTime..MaxNow
    /\ lastRun <= now
    /\ isRunning => lastRun # ZeroTime
    /\ mu = "free"
    /\ reqs = [s \in Ids |-> IdleReq]
    /\ nextId = 1
    /\ analysis = [id \in Ids |-> <<>>]
    /\ statusPc = "idle"
    /\ crashed = FALSE
    /\ probe = NoProbe

PolicyNext ==
    \/ \E in \in PolicyInputs, outcome \in GuardOutcomes, dbOk \in BOOLEAN :
          HandleSubmitIntake(1, in, outcome, dbOk)
    \/ CanTriggerChecks(1)
    \/ \E containerRunning \in BOOLEAN : CanTriggerProbed(1, containerRunning)
    \/ CanTriggerLocked(1)

PolicySpec == PolicyInit /\ [][PolicyNext]_vars

\* CanTrigger called directly on a trigger of any configuration and state
TriggerNext ==
    \/ \E fb \in Feedbacks, containerRunning \in BOOLEAN : CallCanTrigger(fb, containerRunning)

TriggerSpec == PolicyInit /\ [][TriggerNext]_vars

\* The guards called directly, on every response of the guard models
CallCheckPromptInjection(response) ==
    /\ probe = NoProbe
    /\ probe' = [fn |-> "CheckPromptInjection", args |-> <<response>>,
                 out |-> GuardCheck(config, "meta-llama/llama-prompt-guard-2-86m",
                                    "guard check failed: ", response)]
    /\ UNCHANGED <<config, llmReplies, now, isRunning, lastRun, mu, reqs, nextId,
                   analysis, statusPc, crashed>>

CallCheckSafety(response) ==
    /\ probe = NoProbe
    /\ probe' = [fn |-> "CheckSafety", args |-> <<response>>,
                 out |-> GuardCheck(config, "meta-llama/llama-guard-4-12b",
                                    "safety check failed: ", response)]
    /\ UNCHANGED <<config, llmReplies, now, isRunning, lastRun, mu, reqs, nextId,
                   analysis, statusPc, crashed>>

CallRunAllGuards(injectionResponse, safetyResponse) ==
    /\ probe = NoProbe
    /\ probe' = [fn |-> "RunAllGuards", args |-> <<injectionResponse, safetyResponse>>,
                 out |-> RunAllGuards(config, injectionResponse, safetyResponse)]
    /\ UNCHANGED <<config, llmReplies, now, isRunning, lastRun, mu, reqs, nextId,
                   analysis, statusPc, crashed>>

\* The guards called directly, and by the intake of one submission
GuardNext ==
    \/ \E in \in Inputs, outcome \in GuardResponses, dbOk \in BOOLEAN :
          HandleSubmitIntake(1, in, outcome, dbOk)
    \/ \E response \in GuardResponses : CallCheckPromptInjection(response)
    \/ \E response \in GuardResponses : CallCheckSafety(response)
    \/ \E injectionResponse \in GuardResponses, safetyResponse \in GuardResponses :
          CallRunAllGuards(injectionResponse, safetyResponse)

GuardSpec == Init /\ [][GuardNext]_vars

\* parseOutput called directly, on every output of the script
CallParseOutput(output) ==
    /\ probe = NoProbe
    /\ probe' = [fn |-> "parseOutput", args |-> <<output>>,
                 out |-> parseOutput(output, NoArtifacts)]
    /\ UNCHANGED <<config, llmReplies, now, isRunning, lastRun, mu, reqs, nextId,
                   analysis, statusPc, crashed>>

ScrapeNext == \E output \in Outputs : CallParseOutput(output)

ScrapeSpec == Init /\ [][ScrapeNext]_vars

\* TriggerAsync called by a caller that receives, waits or walks away
AsyncNext ==
    \/ CallTriggerAsync
    \/ AsyncExecuteReturns
    \/ AsyncSend
    \/ AsyncClose
    \/ AsyncReceive
    \/ AsyncAbandon

AsyncSpec == Init /\ [][AsyncNext]_vars

\* The sandboxed file tools called directly, on every path
ToolsInit == Init /\ config = AnalyzeConfig

ToolsNext ==
    \/ \E sourceDir \in SourceDirs, path \in Paths : CallGetFileContent(sourceDir, path)

ToolsSpec == ToolsInit /\ [][ToolsNext]_vars

----------------------------------------------------------------------------
(* Properties *)

\* The worker of s is between execute's isRunning = true and the deferred reset
InRun(s) == reqs[s].pc \in {"running", "finishing"}

\* Transport failures as Analyze reports them
TransportErrors ==
    { "LLM call failed: context deadline exceeded", "LLM call failed: LLM API error",
      "no response from LLM" }

\* Number of assistant messages in a history
AssistantCount(messages) ==
    Cardinality({ i \in 1..Len(messages) : messages[i].role = "assistant" })

\* The worker of s ran (or runs) an Analyze
RunsAnalyze(s) == InRun(s) /\ config.Mode # "opencode" /\ ~config.DryRun

\* C1: single-flight. At most one task is between setting isRunning = true in
\* execute and the deferred reset, whatever the interleaving.
C1_SingleFlight == Cardinality({ s \in Ids : InRun(s) }) <= 1

\* C1 witness: a run is in progress and another worker's execute was rejected
C1_Witness ==
    \E s, t \in Ids : /\ s # t
                      /\ reqs[s].pc = "running"
                      /\ reqs[t].result.Message = "already running"

\* C2 (as claimed): each new lastRun stamp is at least a cooldown after the
\* stamp it replaces.
C2_CooldownSpacing == [][lastRun' # lastRun => lastRun' - lastRun >= Cooldown]_vars

\* C3 (as claimed): an admitted submission whose turn 1 is a "stop" without
\* tool calls gets exactly one UpdateAnalysis, with the model's content, for
\* every content.
C3_AsClaimed ==
    \A s \in Ids : (reqs[s].pc = "done" /\ reqs[s].answer1.given)
        => analysis[reqs[s].fb.ID] = << reqs[s].answer1.content >>

\* C3 (amended): such a submission gets exactly one UpdateAnalysis with the
\* model's content when the content is non-empty, and none when it is empty.
C3_StopOnTurnOne ==
    \A s \in Ids : (reqs[s].pc = "done" /\ reqs[s].answer1.given)
        => analysis[reqs[s].fb.ID] =
              IF reqs[s].answer1.content # "" THEN << reqs[s].answer1.content >> ELSE << >>

\* C3 witness: a stored turn-1 answer, while another submission was handled too
C3_Witness ==
    \E s, t \in Ids : /\ s # t
                      /\ reqs[s].pc = "done" /\ reqs[s].answer1.given
                      /\ analysis[reqs[s].fb.ID] = << "## Summary" >>
                      /\ reqs[t].pc = "done" /\ reqs[t].admitted

\* C4 (as claimed): at the end of every Analyze run the number of callLLM
\* invocations equals the number of assistant messages appended, and is <= 10.
C4_AsClaimed ==
    \A s \in Ids : (RunsAnalyze(s) /\ reqs[s].pc = "finishing")
        => /\ reqs[s].calls = AssistantCount(reqs[s].messages)
           /\ reqs[s].calls <= maxIterations

\* C4 (amended): a run makes at most 10 calls; in the tool-calling loop the
\* calls equal the assistant messages appended, plus one when the run ended on
\* a failed call; the single-turn Analyze makes at most one call and appends
\* nothing.
C4_CallsAndMessages ==
    \A s \in Ids : RunsAnalyze(s)
        => /\ reqs[s].calls <= maxIterations
           /\ IF config.ToolCalling
              THEN reqs[s].calls = AssistantCount(reqs[s].messages)
                      + (IF reqs[s].result.Error \in TransportErrors THEN 1 ELSE 0)
              ELSE /\ AssistantCount(reqs[s].messages) = 0
                   /\ reqs[s].calls = (IF reqs[s].pc = "finishing" /\ ~reqs[s].panicking
                                       THEN 1 ELSE 0)

\* C4 witness: a run that ended at the iteration cap
C4_Witness ==
    \E s \in Ids : /\ RunsAnalyze(s) /\ reqs[s].pc = "finishing"
                   /\ reqs[s].calls = maxIterations
                   /\ AssistantCount(reqs[s].messages) = maxIterations

\* C5: while isRunning is true, lastRun is the stamp of the run in progress.
C5_LastRunIsRunStart ==
    isRunning => /\ \E s \in Ids : InRun(s)
                 /\ \A s \in Ids : InRun(s) => reqs[s].stamp = lastRun

\* C5 witness: a run in progress for a tick, after another execute was rejected
C5_Witness ==
    /\ isRunning /\ now > lastRun
    /\ \E s, t \in Ids : /\ s # t /\ InRun(s) /\ reqs[s].stamp = lastRun
                         /\ reqs[t].result.Message = "already running"

\* C6: when no run is in progress the flag is false, whatever path the last
\* run ended on.
C6_FlagReleased == isRunning => \E s \in Ids : InRun(s)

\* C6 witness: a run ended with an error and a later submission is running
C6_Witness ==
    \E s, t \in Ids : /\ s # t
                      /\ reqs[s].pc = "done" /\ reqs[s].result.Error # ""
                      /\ reqs[t].pc = "running"

\* C7 (as claimed): no subprocess, filesystem probe or network call is in
\* progress while the trigger mutex is held.
C7_NoIOUnderLock == mu # "free" => statusPc # "probing"

\* C8: a blocked guard result ends the request with 400 before persistence,
\* CanTrigger and the worker; when the subsystem is on, Create is reached only
\* after the guard.
C8_GuardBeforePersistence ==
    \A s \in Ids :
        /\ reqs[s].guard = "blocked"
              => /\ reqs[s].pc = "done" /\ reqs[s].status = 400
                 /\ reqs[s].create = "none" /\ reqs[s].fb.ID = 0
                 /\ ~reqs[s].asked /\ ~reqs[s].admitted
        /\ (~SelfHealNil /\ reqs[s].create # "none")
              => reqs[s].guard \in {"passed", "skipped"}

\* C8 witness: a blocked submission
C8_Witness ==
    \E s \in Ids : reqs[s].guard = "blocked" /\ reqs[s].status = 400

\* C9 (as claimed): every successful run writes the analysis exactly once, and
\* no id is written more than once.
C9_AsClaimed ==
    /\ \A id \in Ids : Len(analysis[id]) <= 1
    /\ \A s \in Ids : (reqs[s].pc = "done" /\ reqs[s].result.Success)
          => Len(analysis[reqs[s].fb.ID]) = 1

\* C9 (amended): every successful run with a non-empty output writes the
\* analysis exactly once, a successful run with an empty output writes
\* nothing, and no id is written more than once.
C9_WrittenOnce ==
    /\ \A id \in Ids : Len(analysis[id]) <= 1
    /\ \A s \in Ids : (reqs[s].pc = "done" /\ reqs[s].result.Success)
          => analysis[reqs[s].fb.ID] =
                IF reqs[s].result.Output # "" THEN << reqs[s].result.Output >> ELSE << >>

\* C9 witness: two successful runs, each written once
C9_Witness ==
    \E s, t \in Ids : /\ s # t
                      /\ reqs[s].pc = "done" /\ reqs[s].result.Success
                      /\ reqs[t].pc = "done" /\ reqs[t].result.Success
                      /\ Len(analysis[reqs[s].fb.ID]) = 1
                      /\ Len(analysis[reqs[t].fb.ID]) = 1

\* C10: a failed transport call ends Analyze at once, without a retry; the
\* result is a failure carrying the error, and nothing is stored.
C10_TransportFailure ==
    \A s \in Ids :
        /\ reqs[s].failed <= 1
        /\ reqs[s].failed = 1
              => /\ reqs[s].pc = "finishing"
                 /\ ~reqs[s].result.Success
                 /\ reqs[s].result.Error \in TransportErrors
        /\ reqs[s].result.Error \in TransportErrors
              => /\ ~reqs[s].result.Success
                 /\ analysis[reqs[s].fb.ID] = << >>

\* C10 witness: the call of a later turn failed and the run is ending
C10_Witness ==
    \E s \in Ids : reqs[s].pc = "finishing" /\ reqs[s].failed = 1 /\ reqs[s].calls > 1

\* abs is absRoot or lies below it
Under(abs, absRoot) ==
    \/ abs = absRoot
    \/ HasPrefix(abs, IF absRoot = <<"/">> THEN absRoot ELSE absRoot \o <<"/">>)

\* C11: whenever get_file_content(p) returns content, the absolute resolution
\* of (root, p) has absolute(root) as a prefix and lies under the root, and the
\* content is that of the file at that place.
C11_SandboxedRead ==
    (probe.fn = "get_file_content" /\ probe.out.kind = "content")
        => LET absRoot == Abs(probe.args[1])
               abs == Abs(Join(probe.args[1], probe.args[2]))
           IN  /\ HasPrefix(abs, absRoot)
               /\ Under(abs, absRoot)
               /\ abs \in DOMAIN FileSystem
               /\ probe.out.text = FileSystem[abs].content

\* C11 witness: content was returned for a path with an embedded ".." element
C11_Witness ==
    /\ probe.fn = "get_file_content" /\ probe.out.kind = "content"
    /\ \E i \in 1..Len(Split(probe.args[2])) : Split(probe.args[2])[i] = DotDot

\* The run of s has just left the loop at the iteration cap: ten calls, each
\* answered by an assistant message that asked for a tool
AtCap(s) ==
    /\ reqs[s].pc = "finishing" /\ RunsAnalyze(s) /\ config.ToolCalling
    /\ reqs[s].calls = maxIterations /\ reqs[s].failed = 0
    /\ reqs[s].messages[Len(reqs[s].messages)].role = "tool"

\* The index of the last assistant message of a history
LastAssistant(messages) ==
    CHOOSE i \in 1..Len(messages) :
        /\ messages[i].role = "assistant"
        /\ \A j \in (i + 1)..Len(messages) : messages[j].role # "assistant"

\* C12 (as claimed): at the cap Analyze returns the text of the 10th assistant
\* message if it is non-empty and otherwise fails with "analysis incomplete
\* after 10 iterations".
C12_AsClaimed ==
    \A s \in Ids : AtCap(s) =>
        LET tenth == reqs[s].messages[LastAssistant(reqs[s].messages)].content
        IN  IF tenth # ""
            THEN reqs[s].result.Success /\ reqs[s].result.Output = tenth
            ELSE /\ ~reqs[s].result.Success
                 /\ reqs[s].result.Error = "analysis incomplete after 10 iterations"

\* C12 (amended): at the cap Analyze returns the text of the most recent
\* assistant message whose text is non-empty (the 10th when it has text), and
\* fails with "analysis incomplete after 10 tool iterations" only when all ten
\* are empty; the analysis is stored only for a run that returned text.
C12_IterationCap ==
    \A s \in Ids :
        /\ AtCap(s) =>
              LET messages == reqs[s].messages
                  spoken == { i \in 1..Len(messages) :
                                messages[i].role = "assistant" /\ messages[i].content # "" }
              IN  IF spoken # {}
                  THEN /\ reqs[s].result.Success /\ reqs[s].result.Error = ""
                       /\ \E i \in spoken : /\ \A j \in spoken : j <= i
                                            /\ reqs[s].result.Output = messages[i].content
                  ELSE /\ ~reqs[s].result.Success /\ reqs[s].result.Output = ""
                       /\ reqs[s].result.Error = "analysis incomplete after 10 tool iterations"
        /\ (reqs[s].fb.ID \in Ids /\ analysis[reqs[s].fb.ID] # << >>) =>
              /\ reqs[s].pc = "done" /\ reqs[s].result.Success
              /\ analysis[reqs[s].fb.ID] = << reqs[s].result.Output >>
              /\ reqs[s].result.Output # ""

\* C12 witness: a run at the cap whose 10th assistant message is empty returned
\* the text of an earlier one
C12_Witness ==
    \E s \in Ids :
        /\ AtCap(s) /\ reqs[s].result.Success
        /\ reqs[s].messages[LastAssistant(reqs[s].messages)].content = ""

\* The reasons of CanTrigger that contain a word
Mentions(reason, word) ==
    CASE word = "admin" -> reason = "opencode mode requires admin privileges"
      [] word = "cooldown" -> reason \in { "cooldown active, " \o DurationString(d) \o " remaining" :
                                             d \in 0..Cooldown }
      [] OTHER -> FALSE

\* email is on the allow-list, compared in lower case after trimming
OnAdminList(email) ==
    \E admin \in config.AdminEmails : ToLower(TrimSpace(admin)) = ToLower(TrimSpace(email))

\* C13: in opencode mode a submission whose email is not on the admin list is
\* denied by CanTrigger with a reason containing "admin", whatever its type and
\* the trigger's state, and no worker is spawned for it.
C13_AdminGate ==
    \A s \in Ids :
        (config.Mode = "opencode" /\ reqs[s].asked /\ ~OnAdminList(reqs[s].fb.UserEmail))
            => /\ reqs[s].pc = "done" /\ ~reqs[s].admitted
               /\ Mentions(reqs[s].reason, "admin")
               /\ reqs[s].result = NoResult

\* C13 witness: a non-admin with an allowed type is denied while a run is in
\* progress
C13_Witness ==
    \E s \in Ids :
        /\ config.Mode = "opencode" /\ reqs[s].asked
        /\ ~OnAdminList(reqs[s].fb.UserEmail)
        /\ isAllowedType(config, reqs[s].fb.Type)
        /\ isRunning
        /\ Mentions(reqs[s].reason, "admin")

\* CanTrigger has answered the handler of s
Decided(s) == reqs[s].asked /\ reqs[s].pc \in {"done", "spawned"}

\* C14 (as claimed): with a cooldown of 1h and lastRun 30 minutes ago,
\* CanTrigger denies any submission with a reason containing "cooldown".
C14_AsClaimed ==
    \A s \in Ids :
        (Decided(s) /\ lastRun # ZeroTime /\ Since(lastRun) = 1)
            => ~reqs[s].admitted /\ Mentions(reqs[s].reason, "cooldown")

\* C14 (amended): with a cooldown of 1h and lastRun 30 minutes ago, CanTrigger
\* denies any submission; the reason is that of the first failing check, and
\* it is the cooldown's ("cooldown active, 30m0s remaining") when the checks
\* before it pass: prerequisites (with the container up), type, and no run in
\* progress.
C14_CooldownDenial ==
    \A s \in Ids :
        (Decided(s) /\ lastRun # ZeroTime /\ Since(lastRun) = 1)
            => LET earlier == PolicyReason(config, reqs[s].fb, TRUE)
                   expected == IF earlier # "" THEN earlier
                               ELSE IF isRunning THEN "self-healing already in progress"
                               ELSE "cooldown active, 30m0s remaining"
               IN  /\ ~reqs[s].admitted /\ reqs[s].pc = "done"
                   /\ \/ reqs[s].reason = expected
                      \/ /\ PolicyReason(config, reqs[s].fb, FALSE) = "opencode container not running"
                         /\ reqs[s].reason = "opencode container not running"
                   /\ Mentions(reqs[s].reason, "cooldown")
                         => ~isRunning /\ earlier = ""

\* C14 witness: a submission denied for the cooldown, 30 minutes after a run
C14_Witness ==
    \E s \in Ids :
        /\ Decided(s) /\ lastRun # ZeroTime /\ Since(lastRun) = 1
        /\ reqs[s].reason = "cooldown active, 30m0s remaining"

\* C15: a run that starts stamps lastRun with the time of its start, nothing
\* else changes lastRun (so the stamp stays whether the run succeeds or
\* fails), and CanTrigger admits nothing less than a cooldown after the stamp.
C15_StampAndWindow ==
    [][ /\ \A s \in Ids :
              (reqs[s].pc # "running" /\ reqs'[s].pc = "running")
                  => lastRun' = now /\ reqs'[s].stamp = now
        /\ lastRun' # lastRun
              => \E s \in Ids : reqs[s].pc # "running" /\ reqs'[s].pc = "running"
        /\ \A s \in Ids :
              (~reqs[s].admitted /\ reqs'[s].admitted)
                  => now - lastRun >= Cooldown /\ ~isRunning
      ]_vars

\* C15 witness: after a run that failed, a later submission was denied for
\* the cooldown
C15_Witness ==
    \E s, t \in Ids :
        /\ s # t
        /\ reqs[s].pc = "done" /\ reqs[s].admitted /\ reqs[s].result.Error # ""
        /\ reqs[t].pc = "done" /\ Mentions(reqs[t].reason, "cooldown")
        /\ lastRun # ZeroTime /\ ~isRunning

\* The strategy of s ends now, after its deadline has passed
EndsLate(s) ==
    /\ reqs[s].pc = "running" /\ reqs'[s].pc = "finishing" /\ ~reqs'[s].panicking
    /\ ~config.DryRun
    /\ now >= reqs[s].stamp + Timeout

\* The run of s ended on its deadline
TimedOut(r) ==
    r.result.Error \in {"timeout after 30m0s", "LLM call failed: context deadline exceeded"}

ContextErrors ==
    {"timeout after 30m0s", "LLM call failed: context deadline exceeded",
     "LLM call failed: context canceled", "signal: killed: "}

\* C17: a spawned task works after the handler has answered and the request's
\* context is cancelled, and its transport call or subprocess is ended by its
\* context only when the per-run deadline has passed.
C17_DetachedFromRequest ==
    /\ [](\A s \in Ids : reqs[s].pc \in {"spawned", "running", "finishing"}
              => RequestCancelled(reqs[s]))
    /\ [][ \A s \in Ids :
              (/\ reqs[s].pc = "running" /\ reqs'[s].pc = "finishing"
               /\ reqs'[s].result.Error \in ContextErrors)
              => /\ now >= reqs[s].stamp + Timeout
                 /\ reqs'[s].result.Error \notin
                        {"LLM call failed: context canceled", "signal: killed: "} ]_vars

\* C17 witness: a run whose request was answered before it started called the
\* transport or the script within its deadline and completed
C17_Witness ==
    \E s \in Ids :
        /\ reqs[s].pc = "finishing" /\ RequestCancelled(reqs[s])
        /\ reqs[s].result.Success /\ ~config.DryRun
        /\ now < reqs[s].stamp + Timeout

C19_InvalidConfigDisables ==
    (config.Enabled /\ Validate(config) # "") =>
        /\ ~isRunning /\ lastRun = ZeroTime
        /\ \A id \in Ids : analysis[id] = << >>
        /\ \A s \in Ids :
              /\ reqs[s].pc \in {"idle", "done"}
              /\ reqs[s].guard = "none"
              /\ ~reqs[s].asked /\ ~reqs[s].admitted /\ reqs[s].result = NoResult
              /\ reqs[s].status = 400
                    => reqs[s].message \in {"Invalid JSON", "Title is required",
                                            "Description is required"}
              /\ reqs[s].status = 500 => reqs[s].create = "failed"
              /\ (reqs[s].pc = "done" /\ reqs[s].status \notin {400, 500})
                    => /\ reqs[s].status = 201 /\ reqs[s].create = "ok"
                       /\ reqs[s].fb.ID \in Ids
                       /\ reqs[s].message = "Feedback submitted successfully"

\* C19 witness: under a rejected configuration both submissions were stored
\* and answered 201
C19_Witness ==
    /\ config.Enabled /\ Validate(config) # ""
    /\ \A s \in Ids : reqs[s].pc = "done" /\ reqs[s].status = 201 /\ reqs[s].create = "ok"

\* execute's result of a dry run for feedback fb
DryRunResult(fb) ==
    [Triggered |-> TRUE, Success |-> TRUE,
     Message |-> "dry run - would execute " \o config.Mode,
     Output |-> "Feedback: " \o fb.Title \o " - " \o fb.Description, Error |-> ""]

\* C20: with dry_run set a run makes no transport call and starts no script,
\* every run that took the flag ends with the successful synthetic result
\* built from the title and the description, and the run takes the flag and
\* stamps lastRun at its start and resets the flag at its end.
C20_DryRun ==
    /\ [](config.DryRun =>
            \A s \in Ids :
               /\ reqs[s].calls = 0 /\ reqs[s].messages = << >>
               /\ ~reqs[s].panicking
               /\ reqs[s].pc = "running" => (isRunning /\ lastRun = reqs[s].stamp)
               /\ (reqs[s].pc \in {"finishing", "returned", "done"}
                   /\ reqs[s].result # NoResult /\ reqs[s].result # Rejected)
                     => reqs[s].result = DryRunResult(reqs[s].fb))
    /\ [][ config.DryRun =>
            \A s \in Ids :
               /\ (reqs[s].pc = "spawned" /\ reqs'[s].pc = "running")
                     => (~isRunning /\ isRunning' /\ lastRun' = now)
               /\ (reqs[s].pc = "running" /\ reqs'[s].pc # "running")
                     => /\ reqs'[s].pc = "finishing"
                        /\ reqs'[s].result = DryRunResult(reqs[s].fb)
                        /\ UNCHANGED <<isRunning, lastRun>>
               /\ (reqs[s].pc = "finishing" /\ reqs'[s].pc # "finishing")
                     => (reqs'[s].pc = "returned" /\ ~isRunning'
                         /\ UNCHANGED lastRun) ]_vars

\* C20 witness: a dry run in script mode has ended with the synthetic text,
\* the flag is reset and lastRun is stamped
C20_Witness ==
    \E s \in Ids :
        /\ config.DryRun /\ config.Mode = "opencode"
        /\ reqs[s].pc = "done"
        /\ reqs[s].result.Success
        /\ reqs[s].result.Output = "Feedback: Crash - It broke"
        /\ ~isRunning /\ lastRun # ZeroTime

\* The invocations of message m that read "../../etc/passwd"
ReadsPasswd(m) ==
    { k \in 1..Len(m.toolCalls) :
        /\ m.toolCalls[k].name = "get_file_content" /\ m.toolCalls[k].argsOk
        /\ m.toolCalls[k].path = PasswdPath }

\* C21: get_file_content("../../etc/passwd") yields the invalid-path error; it
\* is in the history as the tool message of its invocation when the loop goes
\* on to the next call, and the run fails only on a failed transport call or
\* at the cap, never because of the tool.
C21_TraversalRejected ==
    \A s \in Ids :
        LET messages == reqs[s].messages IN
        /\ (reqs[s].pc = "running" /\ reqs[s].calls >= 1)
              => \E i \in 1..Len(messages) :
                    /\ i = LastAssistant(messages)
                    /\ \A k \in ReadsPasswd(messages[i]) :
                          /\ i + k <= Len(messages)
                          /\ messages[i + k] =
                                Message("tool",
                                        "Error: Invalid path - must be relative within source directory",
                                        <<>>, messages[i].toolCalls[k].id)
        /\ (reqs[s].pc = "finishing" /\ ~reqs[s].result.Success)
              => \/ reqs[s].failed >= 1
                 \/ /\ reqs[s].calls = maxIterations
                    /\ reqs[s].result.Error = "analysis incomplete after 10 tool iterations"

\* C21 witness: the loop goes on after a turn that asked for ../../etc/passwd,
\* with the error as the last message of the history of the next call
C21_Witness ==
    \E s \in Ids :
        /\ reqs[s].pc = "running" /\ reqs[s].calls >= 1
        /\ ReadsPasswd(reqs[s].messages[LastAssistant(reqs[s].messages)]) # {}
        /\ reqs[s].messages[Len(reqs[s].messages)].content =
              "Error: Invalid path - must be relative within source directory"

\* C22: a read that reaches a regular file returns its content when the file
\* has at most 100*1024 bytes, exactly 100*1024 included, and the too-large
\* error with the size when it has 100*1024 + 1 bytes or more.
C22_SizeCapInclusive ==
    (/\ probe.fn = "get_file_content"
     /\ probe.out.text \notin
           {"Error: Source directory not configured",
            "Error: Invalid path - must be relative within source directory",
            "Error: Path escapes source directory"})
    => LET abs == Abs(Join(probe.args[1], Clean(probe.args[2]))) IN
       (abs \in DOMAIN FileSystem /\ ~FileSystem[abs].dir) =>
          /\ FileSystem[abs].size <= 102400
                => probe.out = Content(FileSystem[abs].content)
          /\ FileSystem[abs].size = 102400 + 1
                => probe.out = Failure("Error: File too large (102401 bytes, max 100KB)")
          /\ FileSystem[abs].size > 102400 => probe.out.kind = "error"

\* C22 witness: the file of exactly 100*1024 bytes was read
C22_Witness ==
    /\ probe.fn = "get_file_content"
    /\ probe.args[2] = <<"a", "a", "/", "a">>
    /\ probe.out = Content("at the cap")

\* The assistant message at i is followed by one tool message per invocation,
\* in their order and with their ids, and then by no further tool message
Answered(messages, i) ==
    LET n == Len(messages[i].toolCalls) IN
    /\ n >= 1
    /\ i + n <= Len(messages)
    /\ \A k \in 1..n :
          /\ messages[i + k].role = "tool"
          /\ messages[i + k].toolCallID = messages[i].toolCalls[k].id
          /\ messages[i + k].content = executeTool(messages[i].toolCalls[k])
    /\ i + n < Len(messages) => messages[i + n + 1].role = "assistant"

\* C23: when the loop goes on to its next transport call, and when it leaves
\* at the cap, every assistant message of the history is followed by exactly
\* one tool message per invocation, in the invocations' order, each with the
\* tool_call_id of its invocation.
C23_ToolCallIdRoundTrip ==
    \A s \in Ids :
        ((reqs[s].pc = "running" /\ reqs[s].calls >= 1) \/ AtCap(s))
           => \A i \in 1..Len(reqs[s].messages) :
                 reqs[s].messages[i].role = "assistant" => Answered(reqs[s].messages, i)

\* C23 witness: the loop goes on after a message with three invocations
C23_Witness ==
    \E s \in Ids :
        /\ reqs[s].pc = "running" /\ reqs[s].calls >= 2
        /\ Len(reqs[s].messages[LastAssistant(reqs[s].messages)].toolCalls) = 3

\* C24: the history handed to every transport call starts with one system
\* message and one user message and holds no other of either; handed to a call
\* after the first, it ends with a tool message, and its last assistant message
\* carried an invocation.
C24_HistoryShape ==
    [][ \A s \in Ids :
          (reqs'[s].calls = reqs[s].calls + 1) =>
             LET messages == reqs[s].messages IN
             /\ Len(messages) >= 2
             /\ messages[1].role = "system" /\ messages[2].role = "user"
             /\ \A i \in 3..Len(messages) : messages[i].role \in {"assistant", "tool"}
             /\ reqs[s].calls >= 1 =>
                   /\ messages[Len(messages)].role = "tool"
                   /\ Len(messages[LastAssistant(messages)].toolCalls) >= 1 ]_vars

\* C24 witness: the history before the tenth call
C24_Witness ==
    \E s \in Ids :
        /\ reqs[s].pc = "running" /\ reqs[s].calls = maxIterations - 1
        /\ reqs[s].messages[Len(reqs[s].messages)].role = "tool"

\* The call of s in this step was answered by reply, whose message was appended
AnsweredBy(s, reply) ==
    /\ reqs'[s].calls = reqs[s].calls + 1 /\ reqs'[s].failed = reqs[s].failed
    /\ reply.kind = "choice"
    /\ Len(reqs'[s].messages) > Len(reqs[s].messages)
    /\ reqs'[s].messages[Len(reqs[s].messages) + 1] =
          Message("assistant", reply.content, reply.toolCalls, "")

\* C25: a call answered with finish_reason "stop", or with no invocations,
\* ends Analyze with the message's content, and no tool message is appended
\* even when the "stop" message carries invocations; any other answer has every
\* invocation executed and its tool message appended.
C25_TerminationRule ==
    [][ \A s \in Ids :
          (reqs'[s].calls = reqs[s].calls + 1 /\ reqs'[s].failed = reqs[s].failed) =>
             \E reply \in llmReplies :
                /\ AnsweredBy(s, reply)
                /\ IF reply.finish = "stop" \/ reply.toolCalls = <<>>
                   THEN /\ reqs'[s].pc = "finishing"
                        /\ reqs'[s].messages =
                              Append(reqs[s].messages,
                                     Message("assistant", reply.content, reply.toolCalls, ""))
                        /\ reqs'[s].result.Success /\ reqs'[s].result.Error = ""
                        /\ reqs'[s].result.Output = reply.content
                   ELSE /\ Len(reqs'[s].messages) =
                              Len(reqs[s].messages) + 1 + Len(reply.toolCalls)
                        /\ \A k \in 1..Len(reply.toolCalls) :
                              reqs'[s].messages[Len(reqs[s].messages) + 1 + k] =
                                 Message("tool", executeTool(reply.toolCalls[k]), <<>>,
                                         reply.toolCalls[k].id)
                        /\ reqs'[s].pc = "running" \/ reqs'[s].calls = maxIterations ]_vars

\* C25 witness: a "stop" message with an invocation ended the run on a later
\* turn, and no tool message follows it
C25_Witness ==
    \E s \in Ids :
        /\ reqs[s].pc = "finishing" /\ reqs[s].calls >= 2 /\ reqs[s].result.Success
        /\ reqs[s].messages[Len(reqs[s].messages)].role = "assistant"
        /\ reqs[s].messages[Len(reqs[s].messages)].toolCalls # <<>>

\* C26: a run that leaves the loop at the cap returns the text of the most
\* recent assistant message that has text, which may be older than the last
\* assistant message, and fails with the "analysis incomplete" error exactly
\* when no assistant message has text.
C26_ExhaustionFallback ==
    \A s \in Ids : AtCap(s) =>
        LET messages == reqs[s].messages
            texts == NonEmptyAssistant(messages)
        IN  /\ reqs[s].result.Success <=> texts # {}
            /\ texts # {} =>
                  /\ reqs[s].result.Output = messages[Max(texts)].content
                  /\ reqs[s].result.Output # ""
                  /\ \A j \in (Max(texts) + 1)..Len(messages) :
                        messages[j].role = "assistant" => messages[j].content = ""
            /\ texts = {} =>
                  /\ reqs[s].result.Output = ""
                  /\ reqs[s].result.Error = "analysis incomplete after 10 tool iterations"

\* C26 witness: at the cap the text returned is that of the first assistant
\* message, the nine after it being empty
C26_Witness ==
    \E s \in Ids :
        /\ AtCap(s) /\ reqs[s].result.Output = "Let me look"
        /\ NonEmptyAssistant(reqs[s].messages) = {3}

\* The result the claim gives for an invocation that fails: arguments that do
\* not parse, an unknown function, a read the sandbox rejects
FailureText(call) ==
    IF ~call.argsOk THEN "Error parsing arguments: unexpected end of JSON input"
    ELSE IF call.name \notin {"get_file_content", "list_files"}
         THEN "Unknown tool: " \o call.name
    ELSE IF call.name = "get_file_content"
         THEN CASE call.path = PasswdPath ->
                     "Error: Invalid path - must be relative within source directory"
                [] call.path = <<"a", "a", "a">> -> "Error: File not found: aaa"
                [] call.path = <<"a", "a">> -> "Error: Path is a directory, not a file: aa"
                [] call.path = <<"a", "a", "/", "a", "a">> ->
                     "Error: File too large (102401 bytes, max 100KB)"
                [] call.path = <<>> -> "Error: Path is a directory, not a file: "
                [] OTHER -> ""
    ELSE ""

ClaimedChecks(fb, containerRunning) ==
    << <<~config.Enabled, "self-healing disabled">>,
       <<config.Mode = "opencode" /\ ~isAdmin(config, fb.UserEmail),
         "opencode mode requires admin privileges">>,
       <<config.Mode = "opencode" /\ ~config.ScriptExists, "trigger script not found">>,
       <<config.Mode = "opencode" /\ ~containerRunning, "opencode container not running">>,
       <<config.Mode # "opencode" /\ config.LLMAPIKey = "", "LLM_API_KEY not configured">>,
       <<~isAllowedType(config, fb.Type),
         "feedback type '" \o fb.Type \o "' not allowed for self-healing">>,
       <<isRunning, "self-healing already in progress">>,
       <<now - lastRun < Cooldown,
         "cooldown active, " \o DurationString(Cooldown - (now - lastRun)) \o " remaining">> >>

\* C28: CanTrigger returns (false, reason of the first failing check) in the
\* order enabled, admin, script, container or API key, type, is_running,
\* cooldown, and (true, "") only when no check fails.
C28_CheckOrder ==
    probe.fn = "CanTrigger" =>
        LET checks == ClaimedChecks(probe.args[1], probe.args[2])
            failing == { i \in 1..Len(checks) : checks[i][1] }
        IN  IF failing = {}
            THEN probe.out = [ok |-> TRUE, reason |-> ""]
            ELSE \E i \in failing :
                    /\ \A j \in failing : i <= j
                    /\ probe.out = [ok |-> FALSE, reason |-> checks[i][2]]

\* C28 witness: a non-admin's feature request reached a busy script-mode
\* trigger whose container is down, and the reason is the admin one
C28_Witness ==
    /\ probe.fn = "CanTrigger" /\ config.Mode = "opencode" /\ config.Enabled
    /\ isRunning /\ ~probe.args[2] /\ probe.args[1].Type = "feature"
    /\ probe.out.reason = "opencode mode requires admin privileges"

\* C29 (as claimed): in analyze mode with no API key CanTrigger denies with
\* the reason "API key not configured".
C29_AsClaimed ==
    (probe.fn = "CanTrigger" /\ config.Mode # "opencode" /\ config.LLMAPIKey = "")
        => probe.out = [ok |-> FALSE, reason |-> "API key not configured"]

\* C29 (amended): in analyze mode with no API key CanTrigger denies every
\* submission in every state of the trigger, with the reason "LLM_API_KEY not
\* configured" when the subsystem is enabled and "self-healing disabled" when
\* it is not.
C29_MissingKeyDenied ==
    (probe.fn = "CanTrigger" /\ config.Mode # "opencode" /\ config.LLMAPIKey = "")
        => probe.out = [ok |-> FALSE,
                        reason |-> IF config.Enabled THEN "LLM_API_KEY not configured"
                                   ELSE "self-healing disabled"]

\* C29 witness: an allowed submission reached an idle, enabled analyze trigger
\* that has no API key
C29_Witness ==
    /\ probe.fn = "CanTrigger" /\ config.Enabled /\ config.Mode # "opencode"
    /\ config.LLMAPIKey = "" /\ ~isRunning /\ now - lastRun >= Cooldown
    /\ probe.args[1].Type = "bug"
    /\ ~probe.out.ok

\* The allow-list in lower case
ListedTypes == { ToLower(config.AllowedTypes[i]) : i \in 1..Len(config.AllowedTypes) }

\* C30: CanTrigger denies a submission whose lower-cased, trimmed type is not
\* on the allow-list unless the list holds "all"; a type on the list, or any
\* type when the list holds "all", passes the type check, so it is admitted
\* when no other check fails; with SELFHEALING_TYPES unset the type check lets
\* through the type "bug" alone.
C30_AllowList ==
    probe.fn = "CanTrigger" =>
        LET fb == probe.args[1]
            type == ToLower(TrimSpace(fb.Type))
            passes == type \in ListedTypes \/ "all" \in ListedTypes
            typeReason == "feedback type '" \o fb.Type \o "' not allowed for self-healing"
            others == { i \in 1..Len(ClaimedChecks(fb, probe.args[2])) :
                          i # 6 /\ ClaimedChecks(fb, probe.args[2])[i][1] }
        IN  /\ ~passes => ~probe.out.ok
            /\ probe.out.reason = typeReason => ~passes
            /\ (passes /\ others = {}) => probe.out.ok
            /\ (~passes /\ others = {}) => probe.out.reason = typeReason
            /\ (config.AllowedTypes = parseAllowedTypes("") /\ others = {})
                  => (probe.out.ok <=> fb.Type \in {"bug", " Bug "})

\* C30 witness: a feature request was admitted by a trigger whose list is "ALL"
C30_Witness ==
    /\ probe.fn = "CanTrigger" /\ config.AllowedTypes = <<"ALL">>
    /\ probe.args[1].Type = "feature"
    /\ probe.out.ok

\* C31: an execute that finds the flag set returns success = false with the
\* message "already running", runs no strategy and writes nothing, and leaves
\* the flag and lastRun as they were; an execute returns without a strategy
\* only in that case.
C31_RejectedRunChangesNothing ==
    /\ [][ \A s \in Ids :
             (reqs[s].pc = "spawned" /\ reqs'[s].pc # "spawned") =>
                IF isRunning
                THEN /\ reqs'[s].pc = "returned"
                     /\ ~reqs'[s].result.Success
                     /\ reqs'[s].result.Message = "already running"
                     /\ reqs'[s].result.Output = ""
                     /\ reqs'[s].calls = 0 /\ reqs'[s].messages = << >>
                     /\ isRunning' /\ lastRun' = lastRun
                     /\ analysis' = analysis
                ELSE reqs'[s].pc = "running" ]_vars
    /\ [](\A s \in Ids : reqs[s].result.Message = "already running"
             => /\ reqs[s].pc \in {"returned", "done"}
                /\ reqs[s].calls = 0
                /\ analysis[reqs[s].fb.ID] = << >>)

\* C31 witness: execute has just returned "already running" while the other
\* submission's run holds the flag
C31_Witness ==
    \E s \in Ids, t \in Ids :
        /\ reqs[s].pc = "returned" /\ reqs[s].result.Message = "already running"
        /\ reqs[t].pc = "running" /\ isRunning /\ lastRun = reqs[t].stamp

\* C32: the flag and lastRun change only in a step of execute (taking the
\* flag with the stamp, or the deferred reset); the steps of CanTrigger and of
\* Status leave both as they are, also when CanTrigger admits.
C32_OnlyExecuteWrites ==
    [][ /\ (isRunning' # isRunning \/ lastRun' # lastRun) =>
              \E s \in Ids :
                 \/ reqs[s].pc = "spawned" /\ reqs'[s].pc = "running"
                 \/ reqs[s].pc = "finishing" /\ reqs'[s].pc \in {"returned", "dead"}
        /\ (\E s \in Ids : /\ reqs[s].pc \in {"created", "probing", "locking"}
                           /\ reqs'[s].pc # reqs[s].pc)
              => UNCHANGED <<isRunning, lastRun>>
        /\ statusPc' # statusPc => UNCHANGED <<isRunning, lastRun, reqs>> ]_vars

\* C32 witness: CanTrigger has admitted both submissions and a Status call is
\* in progress, and the trigger is as NewTrigger left it
C32_Witness ==
    /\ \A s \in Ids : reqs[s].pc = "spawned" /\ reqs[s].admitted
    /\ statusPc = "probing"
    /\ ~isRunning /\ lastRun = ZeroTime

\* C33: a submission that CanTrigger admitted, and whose client was told the
\* analysis started, has its execute run the strategy: it never gets the
\* "already running" result.
C33_AdmittedRuns ==
    \A s \in Ids :
        (reqs[s].admitted
         /\ reqs[s].message = "Feedback submitted. Self-healing analysis started.")
            => reqs[s].result.Message # "already running"

\* The results that have left the worker: received with ok, or in the buffer
Delivered(o) ==
    [i \in 1..Len(SelectSeq(o.got, LAMBDA g : g.ok)) |->
        SelectSeq(o.got, LAMBDA g : g.ok)[i].value] \o o.buf

\* C34: the worker's send is never blocked, whatever the caller does; at most
\* one value ever leaves the worker, and once the worker has ended exactly
\* one has, execute's result, and the channel is closed; the channel is closed
\* only after the send, so a receiver gets the result first and the
\* closed-channel value afterwards.
C34_OneResultThenClose ==
    probe.fn = "TriggerAsync" =>
        LET o == probe.out IN
        /\ o.worker = "sending" => ENABLED AsyncSend
        /\ Len(Delivered(o)) <= 1
        /\ o.worker \in {"closing", "exited"} => Delivered(o) = << o.result >>
        /\ o.worker \in {"executing", "sending"} => Delivered(o) = << >>
        /\ o.closed <=> o.worker = "exited"
        /\ \A i \in 1..Len(o.got) : o.got[i].ok <=> i = 1
        /\ o.caller = "receiving" => o.worker # "exited"

\* C34 witness: the caller walked away without receiving; the worker sent its
\* result into the buffer, closed the channel and ended
C34_Witness ==
    /\ probe.fn = "TriggerAsync"
    /\ probe.out.caller = "gone" /\ probe.out.got = << >>
    /\ probe.out.worker = "exited" /\ probe.out.closed
    /\ probe.out.buf = << probe.out.result >>

\* C35: a well-formed submission whose title or description is blank is
\* answered 400 "Title is required" or "Description is required" by the step
\* that takes it in: no guard call, no Create (no id is consumed), CanTrigger
\* not asked, no worker, and the trigger and the stored analyses as they were.
C35_BlankRejectedFirst ==
    [][\A s \in Ids, in \in Inputs, outcome \in GuardOutcomes, dbOk \in BOOLEAN :
          (/\ in.json
           /\ in.title \in {"", " "} \/ in.description \in {"", " "}
           /\ HandleSubmitIntake(s, in, outcome, dbOk))
              => /\ reqs'[s].pc = "done" /\ reqs'[s].status = 400
                 /\ reqs'[s].message = IF in.title \in {"", " "}
                                       THEN "Title is required"
                                       ELSE "Description is required"
                 /\ reqs'[s].guard = "none" /\ reqs'[s].create = "none"
                 /\ reqs'[s].fb = NoFeedback
                 /\ ~reqs'[s].asked /\ ~reqs'[s].admitted
                 /\ reqs'[s].result = NoResult
                 /\ UNCHANGED <<nextId, isRunning, lastRun, mu, analysis>>]_vars

\* C35 witness: self-healing is on and a run is in progress when a submission
\* with a blank description is turned away
C35_Witness ==
    /\ ~SelfHealNil /\ isRunning
    /\ \E s \in Ids : reqs[s].pc = "done" /\ reqs[s].message = "Description is required"

RepliedContent == TrimSpaceText(probe.args[1].choices[1])

\* A guard function was called directly, with the guards live, on a reply
GuardReplied ==
    /\ probe.fn \in {"CheckPromptInjection", "CheckSafety"}
    /\ ~config.SkipGuards /\ config.LLMAPIKey # ""
    /\ probe.args[1].err = "" /\ probe.args[1].choices # << >>

C38_CaseInsensitive ==
    (GuardReplied /\ ~ParseFloat(RepliedContent).ok) =>
        LET contentLower == ToLowerText(RepliedContent)
            result == probe.out.result
        IN  /\ result.Blocked <=> \E word \in BlockKeywords : Contains(contentLower, word)
            /\ result.Blocked => result.Categories = CategoriesIn(contentLower)

\* C39: in every result of a guard function blocked excludes ok, and skipped
\* comes with ok and not blocked; RunAllGuards calls the injection model
\* first, returns the injection result without calling the safety model when
\* it is blocked, and returns ok only when neither check blocked.
C39_ResultShape ==
    probe.fn \in {"CheckPromptInjection", "CheckSafety", "RunAllGuards"} =>
        LET result == probe.out.result
        IN  /\ result.Blocked => ~result.OK
            /\ result.Skipped => result.OK /\ ~result.Blocked
            /\ probe.fn = "RunAllGuards" =>
                LET injection == CheckPromptInjection(config, probe.args[1])
                    safety == CheckSafety(config, probe.args[2])
                IN  /\ probe.out.calls \in
                            { << >>, <<"meta-llama/llama-prompt-guard-2-86m">>,
                              <<"meta-llama/llama-prompt-guard-2-86m",
                                "meta-llama/llama-guard-4-12b">> }
                    /\ injection.Blocked
                          => /\ result = injection
                             /\ probe.out.calls = <<"meta-llama/llama-prompt-guard-2-86m">>
                    /\ (~injection.Blocked /\ safety.Blocked) => result = safety
                    /\ result.OK <=> (~injection.Blocked /\ ~safety.Blocked)

\* C39 witness: both models would have blocked; RunAllGuards returned the
\* injection check's result and called the injection model only
C39_Witness ==
    /\ probe.fn = "RunAllGuards"
    /\ CheckSafety(config, probe.args[2]).Blocked
    /\ probe.out.result.Blocked
    /\ probe.out.result.Categories = <<"prompt_injection">>
    /\ probe.out.result.Confidence = Score(51, 100)
    /\ probe.out.calls = <<"meta-llama/llama-prompt-guard-2-86m">>

\* The trimmed lines of the output parseOutput was called on
ScannedLines ==
    [i \in 1..Len(SplitLines(probe.args[1], 1, << >>, << >>)) |->
        TrimSpaceText(SplitLines(probe.args[1], 1, << >>, << >>)[i])]

\* A "Branch:" line
Labelled(line) == HasPrefix(line, <<"B", "r", "a", "n", "c", "h", ":">>)

\* A line that begins with fix/ or feature/
Bare(line) == HasPrefix(line, <<"f", "i", "x", "/">>) \/ HasPrefix(line, <<"f", "e", "a", "t", "u", "r", "e", "/">>)

\* The branch a line names
Named(line) ==
    IF Labelled(line) THEN TrimSpaceText(SubSeq(line, 8, Len(line)))
    ELSE Fields(line, 1, << >>, << >>)[1]

\* C40 as claimed: the branch is the one named by the first line that begins
\* with "Branch:", "fix/" or "feature/"; no later line changes it.
C40_AsClaimed ==
    probe.fn = "parseOutput" =>
        LET lines == ScannedLines
            matching == {i \in 1..Len(lines) : Labelled(lines[i]) \/ Bare(lines[i])}
        IN  probe.out.Branch =
                IF matching = {} THEN << >>
                ELSE Named(lines[CHOOSE i \in matching : \A j \in matching : i <= j])

\* C40: every "Branch:" line sets the branch, so the last of them decides,
\* also over an earlier fix/ or feature/ line; a fix/ or feature/ line gives
\* the branch only when no branch has been found yet, so it counts only when it
\* comes after the last "Branch:" line and that line, if any, named nothing,
\* and among such lines the first one wins.
C40_BranchRule ==
    probe.fn = "parseOutput" =>
        LET lines == ScannedLines
            labelled == {i \in 1..Len(lines) : Labelled(lines[i])}
            last == IF labelled = {} THEN 0
                    ELSE CHOOSE i \in labelled : \A j \in labelled : i >= j
            base == IF last = 0 THEN << >> ELSE Named(lines[last])
            bare == {i \in (last + 1)..Len(lines) : Bare(lines[i])}
        IN  probe.out.Branch =
                IF base # << >> THEN base
                ELSE IF bare = {} THEN << >>
                ELSE Named(lines[CHOOSE i \in bare : \A j \in bare : i <= j])

\* C40 witness: the output begins with a fix/ line, a "Branch:" line follows,
\* and the branch is the one of the "Branch:" line
C40_Witness ==
    /\ probe.fn = "parseOutput"
    /\ Len(ScannedLines) >= 2
    /\ ScannedLines[1] = <<"f", "i", "x", "/", "c", " ", "p", "u", "s", "h", "e", "d">>
    /\ ScannedLines[2] = <<"B", "r", "a", "n", "c", "h", ":", " ", "f", "i", "x", "/", "a">>
    /\ probe.out.Branch = <<"f", "i", "x", "/", "a">>

====
